---- MODULE Spec2Model ----
(***************************************************************************)
(* A model of mongo-gen-tasks: the splitter (split_tasks.rs), the suite    *)
(* config rewriter (resmoke.rs), the config-writer pool (write_config.rs)  *)
(* and the two orchestrators (bin/gen_version.rs, bin/gen_build_variant.rs)*)
(* with the memo actor of the version-scoped one.                          *)
(*                                                                         *)
(* Each component has its own specification over the shared variables:     *)
(*   SplitSpec    one call of TaskSplitter::split_task, loop step by step   *)
(*   RewriteSpec  one call of ResmokeSuiteConfig::update_config             *)
(*   WriterSpec   the writer pool: write_sub_suite, the workers, flush      *)
(*   Spec         a whole run of gen_version or of gen_build_variant        *)
(* A component that a specification does not run stays in its idle value.  *)
(***************************************************************************)
EXTENDS Integers, Sequences, FiniteSets, TLC

VARIABLES
    split_in,   \* split_task: its arguments and the collaborators' answers
    split,      \* split_task: the locals of the running call
    rw_in,      \* update_config: the stored config and the two arguments
    rw,         \* update_config: the document it hands to the emitter
    channel,        \* writer pool: the messages queued for each worker
    index,          \* WriteConfigActorHandle::index
    worker_alive,   \* writer pool: whether each worker's task still runs
    files,          \* the files of the config directory, path -> document
    flush,          \* the running call of WriteConfigActorHandle::flush
    requests,       \* the suites passed to write_sub_suite so far
    mode,           \* which binary runs: "version" (gen_version) or "variant"
    project,        \* the input: each variant's task list, the order in which
                    \* the variant map is iterated, the expansions' variant
    main,           \* the main task
    bv,             \* gen_version: the task spawned for each build variant
    worker,         \* the task spawned for each generator task of a variant
    inbox,          \* GenTaskActor: the messages queued on its channel
    generated_tasks,    \* GenTaskActor::generated_tasks
    waiting_tasks,      \* GenTaskActor::waiting_tasks
    producer,       \* the computation the actor spawned for each task
    calls,          \* how often get_task_history and split_task ran per task
    generated_config,   \* the GeneratedConfig of each variant
    seen_tasks,
    generated_build_variants,
    task_definitions,
    found_tasks,
    output,         \* the project written to the output file, if written
    call_in,        \* a call of a pure function: the function and its arguments
    call_out,       \* a call of a pure function: what it returned
    lock_holder,    \* gen_version: the task that holds each mutex, if any
    lock_pc,        \* gen_version: where each task is in its lock protocol
    lock_queue      \* gen_version: messages queued for the writer pool

split_vars == <<split_in, split>>
rw_vars == <<rw_in, rw>>
writer_vars == <<channel, index, worker_alive, files, flush, requests>>
orch_vars == <<mode, project, main, bv, worker, inbox, generated_tasks,
               waiting_tasks, producer, calls, generated_config, seen_tasks,
               generated_build_variants, task_definitions, found_tasks, output>>
call_vars == <<call_in, call_out>>
lock_vars == <<lock_holder, lock_pc, lock_queue>>
vars == <<split_vars, rw_vars, writer_vars, orch_vars, call_vars, lock_vars>>

(***************************************************************************)
(* The value of each component while a specification does not run it.      *)
(***************************************************************************)
SplitIdle ==
    /\ split_in = [pc |-> "idle"]
    /\ split = [pc |-> "idle"]

RewriteIdle ==
    /\ rw_in = [pc |-> "idle"]
    /\ rw = [pc |-> "idle"]

WriterIdle ==
    /\ channel = <<>>
    /\ index = 0
    /\ worker_alive = <<>>
    /\ files = <<>>
    /\ flush = [pc |-> "idle"]
    /\ requests = <<>>

OrchIdle ==
    /\ mode = "idle"
    /\ project = <<>>
    /\ main = [pc |-> "idle"]
    /\ bv = <<>>
    /\ worker = <<>>
    /\ inbox = <<>>
    /\ generated_tasks = <<>>
    /\ waiting_tasks = <<>>
    /\ producer = <<>>
    /\ calls = <<>>
    /\ generated_config = <<>>
    /\ seen_tasks = {}
    /\ generated_build_variants = <<>>
    /\ task_definitions = <<>>
    /\ found_tasks = {}
    /\ output = [some |-> FALSE]

CallIdle ==
    /\ call_in = [fn |-> "idle"]
    /\ call_out = [pc |-> "idle"]

LockIdle ==
    /\ lock_holder = <<>>
    /\ lock_pc = <<>>
    /\ lock_queue = 0

\* the process runs until main returns, panics or something calls exit
ProcessRuns == main.pc \notin {"exit0", "exit1", "panicked"}

(***************************************************************************)
(* Bounds of the model.                                                    *)
(***************************************************************************)
MaxTests == 3       \* longest discovered test list
MaxRuntime == 2     \* largest average runtime of a history record
MaxNSuites == 3     \* largest n_suites of the SplitConfig
MaxWrites == 3      \* most write_sub_suite calls made on one handle
count == 2          \* workers of the writer pool (32 in WriteConfigActorHandle::new:
                    \* the pool is scaled down, the handle works modulo its size)
PoolNSuites == 2    \* n_suites of the runs that feed the writer pool
MaxNumTasks == 2    \* largest num_tasks of a fuzzer task
MaxLastVersions == 2    \* most entries of the multiversion last_versions
MaxVarLen == 5    \* longest run-var string given to translate_run_var
MaxStats == 4     \* most statistics records returned for one task
LockChannelCapacity == 1    \* room in the writer pool's channel in LockSpec (32 in write_config.rs)

(***************************************************************************)
(* Constants of the program.                                               *)
(***************************************************************************)
WriteChannelCapacity == 32      \* mpsc::channel(32) of each pool worker
GenTaskChannelCapacity == 128   \* mpsc::channel(128) of the GenTaskActor
CONFIG_DIR == "generated_resmoke_config"
LastVersions == <<"last_lts">>  \* MultiversionConfig::last_versions
GEN_SUFFIX == "_gen"

(***************************************************************************)
(* Generic helpers.                                                        *)
(***************************************************************************)
Range(s) == {s[k] : k \in DOMAIN s}

NoDup(s) == \A k, j \in DOMAIN s : k # j => s[k] # s[j]

\* the sequences without repetition of length <= n over the set S
SeqsNoDup(S, n) == {s \in UNION {[1..k -> S] : k \in 0..n} : NoDup(s)}

RECURSIVE Flatten(_)
Flatten(ss) == IF ss = <<>> THEN <<>> ELSE Head(ss) \o Flatten(Tail(ss))

RECURSIVE SumOver(_, _)
\* the sum of f over the finite set D
SumOver(f, D) ==
    IF D = {} THEN 0
    ELSE LET x == CHOOSE y \in D : TRUE IN f[x] + SumOver(f, D \ {x})

min(a, b) == IF a < b THEN a ELSE b

(***************************************************************************)
(* task_history.rs: the logical name of a test file.                       *)
(***************************************************************************)
RECURSIVE AfterLastSlash(_, _)
\* the part of s after its last "/", looking leftwards from position k
AfterLastSlash(s, k) ==
    IF k = 0 THEN s
    ELSE IF SubSeq(s, k, k) = "/" THEN SubSeq(s, k + 1, Len(s))
    ELSE AfterLastSlash(s, k - 1)

RECURSIVE trim_end_matches_js(_)
\* str::trim_end_matches(".js"): every trailing repetition is removed
trim_end_matches_js(s) ==
    IF Len(s) >= 3 /\ SubSeq(s, Len(s) - 2, Len(s)) = ".js"
    THEN trim_end_matches_js(SubSeq(s, 1, Len(s) - 3))
    ELSE s

get_test_name(test_file) ==
    trim_end_matches_js(AfterLastSlash(test_file, Len(test_file)))

(***************************************************************************)
(* split_tasks.rs: TaskSplitter::split_task.                               *)
(*                                                                         *)
(* A TaskRuntimeHistory is [suite_name, task_name, test_map] with test_map *)
(* a function from logical test names to average runtimes.  Runtimes are   *)
(* natural numbers here; the f64 quotient total_runtime / max_tasks is     *)
(* never formed: the comparison against it is done on the cross product,   *)
(* and the division by zero (+inf, or NaN for 0.0/0.0) is the case in      *)
(* which no f64 compares greater.                                          *)
(***************************************************************************)
\* the test files resmoke may discover, and the logical names of their tests
TestFiles == {"jstests/a.js", "jstests/core/b.js", "c.js", "jstests/x/a.js"}
TestNames == {get_test_name(f) : f \in TestFiles}

\* .filter(|s| Path::new(s).exists())
RECURSIVE FilterExisting(_, _)
FilterExisting(tests, existing) ==
    IF tests = <<>> THEN <<>>
    ELSE IF Head(tests) \in existing
         THEN <<Head(tests)>> \o FilterExisting(Tail(tests), existing)
         ELSE FilterExisting(Tail(tests), existing)

\* the fold over test_map of the average runtimes
total_runtime_of(test_map) == SumOver(test_map, DOMAIN test_map)

\* running_runtime + average_runtime > runtime_per_subtask, where
\* runtime_per_subtask = total_runtime / max_tasks as f64
ExceedsTarget(runtime, total_runtime, max_tasks) ==
    IF max_tasks = 0 THEN FALSE
    ELSE runtime * max_tasks > total_runtime

\* a sub-suite name without the build variant
SubSuiteName_NoVariant(task_name, idx, bv_name) ==
    task_name \o "_" \o ToString(idx)

\* format!("{}_{}_{}", &task_stats.task_name, i, bv_name)
SubSuiteName(task_name, idx, bv_name) ==
    task_name \o "_" \o ToString(idx) \o "_" \o bv_name

SubSuite(name, tests) == [name |-> name, test_list |-> tests]

\* the locals of split_task when its loop starts
SplitEnter(task_stats, tests, n_suites) ==
    [pc |-> "loop",
     test_list |-> tests,
     pos |-> 1,
     total_runtime |-> total_runtime_of(task_stats.test_map),
     max_tasks |-> min(n_suites, Len(tests)),
     sub_suites |-> <<>>,
     running_tests |-> <<>>,
     running_runtime |-> 0,
     i |-> 0]

\* the condition under which the running sub-suite is closed before `test`
ShouldClose(fr, avg) ==
    /\ ExceedsTarget(fr.running_runtime + avg, fr.total_runtime, fr.max_tasks)
    /\ fr.running_tests # <<>>
    /\ Len(fr.sub_suites) < fr.max_tasks - 1

\* SplitIteration with the reset of running_tests placed after the push of
\* `test`: the test that closes a sub-suite is dropped
SplitIteration_ResetAfterPush(fr, task_stats, bv_name) ==
    LET test == fr.test_list[fr.pos]
        test_name == get_test_name(test)
        known == test_name \in DOMAIN task_stats.test_map
        avg == IF known THEN task_stats.test_map[test_name] ELSE 0
        close == known /\ ShouldClose(fr, avg)
    IN  IF close
        THEN [fr EXCEPT
                !.sub_suites = Append(@, SubSuite(
                    SubSuiteName(task_stats.task_name, fr.i, bv_name),
                    fr.running_tests)),
                !.running_tests = <<>>,
                !.running_runtime = avg,
                !.i = @ + 1,
                !.pos = @ + 1]
        ELSE [fr EXCEPT
                !.running_runtime = IF known THEN @ + avg ELSE @,
                !.running_tests = Append(@, test),
                !.pos = @ + 1]

\* SplitIteration with the closing check placed after the push of `test`: the
\* test that exceeds the target is the last of the sub-suite it closes
SplitIteration_CloseAfterPush(fr, task_stats, bv_name) ==
    LET test == fr.test_list[fr.pos]
        test_name == get_test_name(test)
        known == test_name \in DOMAIN task_stats.test_map
        avg == IF known THEN task_stats.test_map[test_name] ELSE 0
        close == known /\ ShouldClose(fr, avg)
    IN  IF close
        THEN [fr EXCEPT
                !.sub_suites = Append(@, SubSuite(
                    SubSuiteName(task_stats.task_name, fr.i, bv_name),
                    Append(fr.running_tests, test))),
                !.running_tests = <<>>,
                !.running_runtime = 0,
                !.i = @ + 1,
                !.pos = @ + 1]
        ELSE [fr EXCEPT
                !.running_runtime = IF known THEN @ + avg ELSE @,
                !.running_tests = Append(@, test),
                !.pos = @ + 1]

\* SplitIteration treating a test without history as one of runtime 0: it
\* goes through the closing check like any other test
SplitIteration_UnknownAsZero(fr, task_stats, bv_name) ==
    LET test == fr.test_list[fr.pos]
        test_name == get_test_name(test)
        known == test_name \in DOMAIN task_stats.test_map
        avg == IF known THEN task_stats.test_map[test_name] ELSE 0
        closed == IF ShouldClose(fr, avg)
                  THEN [fr EXCEPT
                          !.sub_suites = Append(@, SubSuite(
                              SubSuiteName(task_stats.task_name, fr.i, bv_name),
                              fr.running_tests)),
                          !.running_tests = <<>>,
                          !.running_runtime = 0,
                          !.i = @ + 1]
                  ELSE fr
    IN  [closed EXCEPT
           !.running_runtime = @ + avg,
           !.running_tests = Append(@, test),
           !.pos = @ + 1]

\* one iteration of `for test in test_list`
SplitIteration(fr, task_stats, bv_name) ==
    LET test == fr.test_list[fr.pos]
        test_name == get_test_name(test)
        known == test_name \in DOMAIN task_stats.test_map
        avg == IF known THEN task_stats.test_map[test_name] ELSE 0
        close == known /\ ShouldClose(fr, avg)
        closed == IF close
                  THEN [fr EXCEPT
                          !.sub_suites = Append(@, SubSuite(
                              SubSuiteName(task_stats.task_name, fr.i, bv_name),
                              fr.running_tests)),
                          !.running_tests = <<>>,
                          !.running_runtime = 0,
                          !.i = @ + 1]
                  ELSE fr
    IN  [closed EXCEPT
           !.running_runtime = IF known THEN @ + avg ELSE @,
           !.running_tests = Append(@, test),
           !.pos = @ + 1]

\* the last sub-suite pushed whether or not it has tests
SplitLeave_AlwaysPush(fr, task_stats, bv_name) ==
    [fr EXCEPT
       !.pc = "done",
       !.sub_suites =
           Append(@, SubSuite(SubSuiteName(task_stats.task_name, fr.i, bv_name),
                              fr.running_tests))]

\* after the loop: the last sub-suite, if it has tests
SplitLeave(fr, task_stats, bv_name) ==
    [fr EXCEPT
       !.pc = "done",
       !.sub_suites =
           IF fr.running_tests # <<>>
           THEN Append(@, SubSuite(
                    SubSuiteName(task_stats.task_name, fr.i, bv_name),
                    fr.running_tests))
           ELSE @]

GeneratedSuite(task_name, suite_name, subs) ==
    [task_name |-> task_name, suite_name |-> suite_name, sub_suites |-> subs]

RECURSIVE SplitRun(_, _, _)
SplitRun(fr, task_stats, bv_name) ==
    IF fr.pos > Len(fr.test_list)
    THEN SplitLeave(fr, task_stats, bv_name)
    ELSE SplitRun(SplitIteration(fr, task_stats, bv_name), task_stats, bv_name)

\* split_task as a function of its arguments and of what test discovery and
\* the file system answer
split_task(task_stats, discovered, existing, n_suites, bv_name) ==
    LET fr == SplitRun(
                  SplitEnter(task_stats,
                             FilterExisting(discovered, existing), n_suites),
                  task_stats, bv_name)
    IN  GeneratedSuite(task_stats.task_name, task_stats.suite_name,
                       fr.sub_suites)

(***************************************************************************)
(* SplitSpec: one call of split_task.                                      *)
(***************************************************************************)
Runtimes == 0..MaxRuntime

TestMaps == UNION {[D -> Runtimes] : D \in SUBSET TestNames}

\* at most one discovered file is missing from the file system
ExistingSets == {TestFiles \ M : M \in {N \in SUBSET TestFiles : Cardinality(N) <= 1}}

SplitInit ==
    /\ \E tm \in TestMaps, d \in SeqsNoDup(TestFiles, MaxTests),
          e \in ExistingSets, n \in 0..MaxNSuites :
          split_in = [task_stats |-> [suite_name |-> "s1", task_name |-> "t",
                                      test_map |-> tm],
                      discovered |-> d, existing |-> e, n_suites |-> n,
                      bv_name |-> "vA"]
    /\ split = [pc |-> "start"]
    /\ RewriteIdle
    /\ WriterIdle
    /\ OrchIdle
    /\ CallIdle
    /\ LockIdle

\* lines 97-121: discovery, the filter, the target, the empty accumulators
SplitBegin ==
    /\ split.pc = "start"
    /\ split' = SplitEnter(split_in.task_stats,
                           FilterExisting(split_in.discovered, split_in.existing),
                           split_in.n_suites)
    /\ UNCHANGED <<split_in, rw_vars, writer_vars, orch_vars, call_vars, lock_vars>>

\* lines 122-140: one iteration of the loop
SplitIterate ==
    /\ split.pc = "loop"
    /\ split.pos <= Len(split.test_list)
    /\ split' = SplitIteration(split, split_in.task_stats, split_in.bv_name)
    /\ UNCHANGED <<split_in, rw_vars, writer_vars, orch_vars, call_vars, lock_vars>>

\* lines 141-153: the last sub-suite and the return
SplitFinish ==
    /\ split.pc = "loop"
    /\ split.pos > Len(split.test_list)
    /\ split' = SplitLeave(split, split_in.task_stats, split_in.bv_name)
    /\ UNCHANGED <<split_in, rw_vars, writer_vars, orch_vars, call_vars, lock_vars>>

SplitNext == SplitBegin \/ SplitIterate \/ SplitFinish

SplitSpec == SplitInit /\ [][SplitNext]_vars

\* the value split_task returns, once it has returned
SplitResult ==
    GeneratedSuite(split_in.task_stats.task_name,
                   split_in.task_stats.suite_name, split.sub_suites)

(***************************************************************************)
(* Properties of split_task (SplitSpec).                                   *)
(***************************************************************************)
SplitDone == split.pc = "done"

\* the test lists of the returned sub-suites, one after the other
SplitConcat ==
    Flatten([k \in DOMAIN split.sub_suites |-> split.sub_suites[k].test_list])

\* C1: when split_task has returned, the test lists of its sub-suites,
\* concatenated in sub-suite order, are the discovered tests that exist on
\* the file system, in discovery order: none lost, duplicated or reordered.
C1_PartitionCoverage ==
    SplitDone =>
        SplitConcat = FilterExisting(split_in.discovered, split_in.existing)

\* a run that discovered a missing file, kept three tests, and split them
C1_Witness ==
    /\ SplitDone
    /\ Len(split.sub_suites) >= 2
    /\ Len(split.test_list) = 2
    /\ Len(split_in.discovered) = 3

\* C2 (as claimed): split_task returns at most min(n_suites, number of
\* discovered tests) sub-suites, and none when that minimum is 0.
C2_PartitionCardinality ==
    SplitDone =>
        Len(split.sub_suites) <= min(split_in.n_suites, Len(split_in.discovered))

(***************************************************************************)
(* resmoke.rs: ResmokeSuiteConfig::update_config.                          *)
(*                                                                         *)
(* A Yaml node is a record with a tag: a Hash holds a function from keys   *)
(* to nodes (the order of the keys of the LinkedHashMap is not modelled),  *)
(* an Array a sequence of nodes, a String its text.  update_config dumps   *)
(* the new root with YamlEmitter; the model keeps the tree that is dumped. *)
(***************************************************************************)
YHash(f) == [tag |-> "Hash", map |-> f]
YArray(items) == [tag |-> "Array", items |-> items]
YString(s) == [tag |-> "String", v |-> s]
YBoolean(b) == [tag |-> "Boolean", v |-> b]
YNull == [tag |-> "Null"]

\* Yaml::from_str on a test path: the words of the core schema become
\* typed scalars, everything else (no number is among the paths) a String
Yaml_from_str(s) ==
    IF s \in {"~", "null"} THEN YNull
    ELSE IF s = "true" THEN YBoolean(TRUE)
    ELSE IF s = "false" THEN YBoolean(FALSE)
    ELSE YString(s)

YamlList(strings) == [k \in DOMAIN strings |-> Yaml_from_str(strings[k])]

EmptyMap == [k \in {} |-> YNull]
MapInsert(f, key, node) ==
    [k \in DOMAIN f \cup {key} |-> IF k = key THEN node ELSE f[k]]
MapRemove(f, key) == [k \in DOMAIN f \ {key} |-> f[k]]

None == [some |-> FALSE]
Some(x) == [some |-> TRUE, v |-> x]

\* anyhow::Result of a call: Ok(v), Err with its message, or the call panicked
Ok(x) == [tag |-> "Ok", v |-> x]
Err(msg) == [tag |-> "Err", msg |-> msg]
Panic == [tag |-> "Panic"]

\* the new selector built afresh from the test list instead of from a clone
\* of the old selector
NewSelector_RootsOnly(selector, test_list, all_tests) ==
    IF all_tests.some
    THEN MapInsert(selector, "exclude_files", YArray(YamlList(all_tests.v)))
    ELSE MapInsert(EmptyMap, "roots", YArray(YamlList(test_list)))

\* lines 153-193: the new selector, from a selector that is a Hash
NewSelector(selector, test_list, all_tests) ==
    IF all_tests.some
    THEN IF "exclude_files" \in DOMAIN selector
         THEN IF selector["exclude_files"].tag = "Array"
              THEN MapInsert(selector, "exclude_files",
                       YArray(selector["exclude_files"].items
                                  \o YamlList(all_tests.v)))
              ELSE selector
         ELSE MapInsert(selector, "exclude_files", YArray(YamlList(all_tests.v)))
    ELSE MapInsert(MapRemove(selector, "exclude_files"), "roots",
                   YArray(YamlList(test_list)))

\* lines 147-205: the root handed to the emitter
update_config(config, test_list, all_tests) ==
    IF config.tag = "Hash"
    THEN LET map == config.map
             kept == {k \in DOMAIN map :
                         k = "selector" => map[k].tag = "Hash"}
         IN  YHash([k \in kept |->
                       IF k = "selector"
                       THEN YHash(NewSelector(map[k].map, test_list, all_tests))
                       ELSE map[k]])
    ELSE YHash(EmptyMap)

(***************************************************************************)
(* RewriteSpec: one call of update_config on a suite config.               *)
(***************************************************************************)
MaxRewriteTests == 2    \* longest test list and longest exclusion list

RewriteTests == {"jstests/a.js", "c.js"}

\* the values a key of the selector may have in a suite file; Absent stands
\* for a key that the mapping does not have
Absent == [tag |-> "Absent"]
RootsChoices == {Absent, YArray(<<YString("jstests/auth/*.js")>>)}
ExcludeChoices == {Absent, YNull, YArray(<<>>),
                   YArray(<<YString("jstests/auth/repl.js")>>)}
TagsChoices == {Absent, YArray(<<YString("requires_auth")>>)}

\* the mapping with the given keys, those that are Absent left out
MapOf(keys, node) ==
    [k \in {x \in keys : node[x] # Absent} |-> node[k]]

SelectorChoices ==
    {Absent, YNull} \cup
    {YHash(MapOf({"roots", "exclude_files", "include_with_any_tags"},
                 [roots |-> r, exclude_files |-> e, include_with_any_tags |-> t])) :
        r \in RootsChoices, e \in ExcludeChoices, t \in TagsChoices}

ExecutorChoices ==
    {Absent, YHash([fixture |-> YHash([class |-> YString("ReplicaSetFixture")])])}

SuiteConfigs ==
    {YString("js_test")} \cup
    {YHash(MapOf({"test_kind", "selector", "executor"},
                 [test_kind |-> YString("js_test"), selector |-> s, executor |-> x])) :
        s \in SelectorChoices, x \in ExecutorChoices}

RewriteInit ==
    /\ \E c \in SuiteConfigs, l \in SeqsNoDup(RewriteTests, MaxRewriteTests),
          a \in {None} \cup {Some(e) : e \in SeqsNoDup(RewriteTests, MaxRewriteTests)} :
          rw_in = [config |-> c, test_list |-> l, all_tests |-> a]
    /\ rw = [pc |-> "start"]
    /\ SplitIdle
    /\ WriterIdle
    /\ OrchIdle
    /\ CallIdle
    /\ LockIdle

UpdateConfig ==
    /\ rw.pc = "start"
    /\ rw' = [pc |-> "done",
              out |-> update_config(rw_in.config, rw_in.test_list, rw_in.all_tests),
              config |-> rw_in.config]
    /\ UNCHANGED <<rw_in, split_vars, writer_vars, orch_vars, call_vars, lock_vars>>

RewriteNext == UpdateConfig

RewriteSpec == RewriteInit /\ [][RewriteNext]_vars

(***************************************************************************)
(* Properties of update_config (RewriteSpec).                              *)
(***************************************************************************)
\* the selector mapping of a document, empty when it has none
SelectorOf(doc) ==
    IF doc.tag = "Hash" /\ "selector" \in DOMAIN doc.map
       /\ doc.map["selector"].tag = "Hash"
    THEN doc.map["selector"].map
    ELSE EmptyMap

\* the value under a key, Absent when the mapping lacks the key
Get(f, key) == IF key \in DOMAIN f THEN f[key] ELSE Absent

\* the two documents agree outside selector.roots and selector.exclude_files
SameElsewhere(doc, out) ==
    /\ out.tag = "Hash"
    /\ DOMAIN out.map \ {"selector"} = DOMAIN doc.map \ {"selector"}
    /\ \A k \in DOMAIN doc.map \ {"selector"} : out.map[k] = doc.map[k]
    /\ \A k \in (DOMAIN SelectorOf(doc) \cup DOMAIN SelectorOf(out))
                    \ {"roots", "exclude_files"} :
           Get(SelectorOf(out), k) = Get(SelectorOf(doc), k)

\* C9 (as claimed): for a config with a mapping at the root, with or without
\* a selector key, and a non-empty test list L, update_config(L, None)
\* gives the same document except that selector.roots is L and
\* selector.exclude_files is absent.
C9_RewriterRoots ==
    (/\ rw.pc = "done"
     /\ rw_in.config.tag = "Hash"
     /\ rw_in.test_list # <<>>
     /\ ~rw_in.all_tests.some)
    => /\ SameElsewhere(rw_in.config, rw.out)
       /\ Get(SelectorOf(rw.out), "roots") = YArray(YamlList(rw_in.test_list))
       /\ "exclude_files" \notin DOMAIN SelectorOf(rw.out)

\* the entries of selector.exclude_files, none when it is no list
ExcludedEntries(doc) ==
    LET e == Get(SelectorOf(doc), "exclude_files")
    IN  IF e.tag = "Array" THEN e.items ELSE <<>>

\* C10 (as claimed): for a config with a mapping at the root and an exclusion
\* set E, update_config([], Some(E)) leaves selector.roots as it was and
\* makes selector.exclude_files the old entries followed by E.
C10_RewriterExclusion ==
    (/\ rw.pc = "done"
     /\ rw_in.config.tag = "Hash"
     /\ rw_in.test_list = <<>>
     /\ rw_in.all_tests.some)
    => /\ Get(SelectorOf(rw.out), "roots") = Get(SelectorOf(rw_in.config), "roots")
       /\ Get(SelectorOf(rw.out), "exclude_files")
              = YArray(ExcludedEntries(rw_in.config) \o YamlList(rw_in.all_tests.v))

(***************************************************************************)
(* write_config.rs: the pool of WriteConfigActor workers and its handle.   *)
(*                                                                         *)
(* channel[w] is the inbox of worker w (an mpsc channel), index the        *)
(* handle's round-robin position, files the config directory.  A worker    *)
(* whose handle_message panics (a failed suiteconfig read or file write)   *)
(* is gone: its receiver is dropped with whatever was queued.              *)
(***************************************************************************)
Workers == 0..(count - 1)

SuiteFilesMsg(gen_suite) == [type |-> "SuiteFiles", gen_suite |-> gen_suite]
FlushMsg == [type |-> "Flush"]

\* ResmokeSuiteConfig::read_suite_config: what `resmoke.py suiteconfig` prints
\* for the suites of the project
read_suite_config(suite_name) ==
    IF suite_name = "s2"
    THEN \* a suite whose config has no selector
         YHash([test_kind |-> YString("js_test"),
                executor |-> YHash([fixture |->
                                       YHash([class |-> YString("ReplicaSetFixture")])])])
    ELSE YHash([test_kind |-> YString("js_test"),
                selector |-> YHash([roots |-> YArray(<<YString("jstests/" \o suite_name \o "/*.js")>>),
                                    exclude_files |-> YArray(<<YString("jstests/x/a.js")>>)]),
                executor |-> YHash([fixture |->
                                       YHash([class |-> YString("ReplicaSetFixture")])])])

\* PathBuf::from(config_dir).push(file_name)
ConfigPath(file_name) == CONFIG_DIR \o "/" \o file_name

AllTests(gen_suite) ==
    Flatten([k \in DOMAIN gen_suite.sub_suites |-> gen_suite.sub_suites[k].test_list])

\* lines 36-56: the files one SuiteFiles request writes, as <<path, document>>
FilesOfRequest(gen_suite) ==
    LET base_config == read_suite_config(gen_suite.suite_name)
    IN  {<<ConfigPath(s.name \o ".yml"),
           update_config(base_config, s.test_list, None)>> :
            s \in Range(gen_suite.sub_suites)}
        \cup {<<ConfigPath(gen_suite.task_name \o "_misc.yml"),
                update_config(base_config, <<>>, Some(AllTests(gen_suite)))>>}

\* std::fs::write of each <<path, document>> of the set
WriteFiles(dir, written) ==
    [p \in DOMAIN dir \cup {f[1] : f \in written} |->
        IF \E f \in written : f[1] = p
        THEN (CHOOSE f \in written : f[1] = p)[2]
        ELSE dir[p]]

WriterInit ==
    /\ channel = [w \in Workers |-> <<>>]
    /\ index = 0
    /\ worker_alive = [w \in Workers |-> TRUE]
    /\ files = EmptyMap
    /\ flush = [pc |-> "idle", k |-> 0, replied |-> FALSE]
    /\ requests = <<>>

\* round_robbin that sends to the worker after the one at index
RoundRobbinOk_NextWorker(msg) ==
    /\ worker_alive[(index + 1) % count]
    /\ Len(channel[(index + 1) % count]) < WriteChannelCapacity
    /\ channel' = [channel EXCEPT ![(index + 1) % count] = Append(@, msg)]
    /\ index' = (index + 1) % count

\* round_robbin, when the send succeeds: the message joins the inbox of the
\* worker at index (the send waits while that inbox is full)
RoundRobbinOk(msg) ==
    /\ worker_alive[index]
    /\ Len(channel[index]) < WriteChannelCapacity
    /\ channel' = [channel EXCEPT ![index] = Append(@, msg)]
    /\ index' = (index + 1) % count

\* round_robbin, when the worker at index is gone: send returns Err, unwrap panics
RoundRobbinPanics ==
    /\ ~worker_alive[index]
    /\ index' = (index + 1) % count
    /\ UNCHANGED channel

\* write_sub_suite(gen_suite) returning normally
WriteSubSuiteOk(gen_suite) ==
    /\ RoundRobbinOk(SuiteFilesMsg(gen_suite))
    /\ requests' = Append(requests, gen_suite)
    /\ UNCHANGED <<worker_alive, files, flush>>

\* write_sub_suite(gen_suite) panicking in round_robbin
WriteSubSuitePanics ==
    /\ RoundRobbinPanics
    /\ UNCHANGED <<worker_alive, files, flush, requests>>

\* WriteConfigActor::run + handle_message on a SuiteFiles message that is
\* handled to the end
WorkerWrites(w) ==
    /\ ProcessRuns
    /\ worker_alive[w]
    /\ channel[w] # <<>>
    /\ Head(channel[w]).type = "SuiteFiles"
    /\ files' = WriteFiles(files, FilesOfRequest(Head(channel[w]).gen_suite))
    /\ channel' = [channel EXCEPT ![w] = Tail(@)]
    /\ UNCHANGED <<index, worker_alive, flush, requests>>

\* handle_message panicking on a SuiteFiles message: read_suite_config failed
\* (nothing is written) or a write failed; the sub-suite files are written in
\* parallel, so any of them may exist, the misc file is written after them
WorkerPanics(w) ==
    /\ ProcessRuns
    /\ worker_alive[w]
    /\ channel[w] # <<>>
    /\ Head(channel[w]).type = "SuiteFiles"
    /\ \E written \in SUBSET FilesOfRequest(Head(channel[w]).gen_suite) :
          /\ \A f \in written :
                 f[1] # ConfigPath(Head(channel[w]).gen_suite.task_name \o "_misc.yml")
          /\ files' = WriteFiles(files, written)
    /\ worker_alive' = [worker_alive EXCEPT ![w] = FALSE]
    /\ channel' = [channel EXCEPT ![w] = <<>>]
    /\ UNCHANGED <<index, flush, requests>>

\* handle_message on a Flush message: the oneshot reply
WorkerFlushes(w) ==
    /\ ProcessRuns
    /\ worker_alive[w]
    /\ channel[w] # <<>>
    /\ Head(channel[w]).type = "Flush"
    /\ flush' = [flush EXCEPT !.replied = TRUE]
    /\ channel' = [channel EXCEPT ![w] = Tail(@)]
    /\ UNCHANGED <<index, worker_alive, files, requests>>

\* flush, lines 99-102: the Flush message to the next worker
FlushSend ==
    /\ ProcessRuns
    /\ flush.pc = "send"
    /\ IF worker_alive[flush.k]
       THEN /\ Len(channel[flush.k]) < WriteChannelCapacity
            /\ channel' = [channel EXCEPT ![flush.k] = Append(@, FlushMsg)]
            /\ flush' = [flush EXCEPT !.pc = "wait", !.replied = FALSE]
       ELSE /\ flush' = [flush EXCEPT !.pc = "panicked"]
            /\ UNCHANGED channel
    /\ UNCHANGED <<index, worker_alive, files, requests>>

\* flush that does not wait for the worker's reply
FlushRecv_NoWait ==
    /\ ProcessRuns
    /\ flush.pc = "wait"
    /\ flush' = [flush EXCEPT
                   !.k = @ + 1,
                   !.pc = IF flush.k + 1 = count THEN "returned" ELSE "send"]
    /\ UNCHANGED <<channel, index, worker_alive, files, requests>>

\* flush, line 103: recv.await.unwrap(), then the next worker or the return
FlushRecv ==
    /\ ProcessRuns
    /\ flush.pc = "wait"
    /\ \/ /\ flush.replied
          /\ flush' = [flush EXCEPT
                         !.k = @ + 1,
                         !.pc = IF flush.k + 1 = count THEN "returned" ELSE "send"]
       \/ /\ ~flush.replied
          /\ ~worker_alive[flush.k]
          /\ flush' = [flush EXCEPT !.pc = "panicked"]
    /\ UNCHANGED <<channel, index, worker_alive, files, requests>>

(***************************************************************************)
(* WriterSpec: one owner of the handle sends write requests, then flushes, *)
(* while the workers run.                                                  *)
(***************************************************************************)
\* the suites the owner may ask to write: s1 split for two tasks under two
\* histories, which give one and two sub-suites
PoolTests == <<"jstests/a.js", "c.js">>
PoolHistories == {<<>>, [n \in {"a", "c"} |-> 1]}
PoolSuite(task, suite, test_map, bv_name) ==
    split_task([suite_name |-> suite, task_name |-> task, test_map |-> test_map],
               PoolTests, TestFiles, PoolNSuites, bv_name)
SuitesToWrite ==
    {PoolSuite(t, "s1", h, "vA") : t \in {"t", "u"}, h \in PoolHistories}
    \cup {PoolSuite("u", "s2", h, "vA") : h \in PoolHistories}

WriterSpecInit ==
    /\ WriterInit
    /\ SplitIdle
    /\ RewriteIdle
    /\ OrchIdle
    /\ CallIdle
    /\ LockIdle

\* the owner calls write_sub_suite
CallWriteSubSuite ==
    /\ flush.pc = "idle"
    /\ Len(requests) < MaxWrites
    /\ \E gs \in SuitesToWrite : WriteSubSuiteOk(gs)
    /\ UNCHANGED <<split_vars, rw_vars, orch_vars, call_vars, lock_vars>>

\* the owner's write_sub_suite panics: it never gets to flush
CallWriteSubSuitePanics ==
    /\ flush.pc = "idle"
    /\ Len(requests) < MaxWrites
    /\ RoundRobbinPanics
    /\ flush' = [flush EXCEPT !.pc = "panicked"]
    /\ UNCHANGED <<worker_alive, files, requests, split_vars, rw_vars, orch_vars, call_vars, lock_vars>>

\* the owner calls flush
CallFlush ==
    /\ flush.pc = "idle"
    /\ flush' = [flush EXCEPT !.pc = "send", !.k = 0]
    /\ UNCHANGED <<channel, index, worker_alive, files, requests, split_vars, rw_vars, orch_vars, call_vars, lock_vars>>

WorkerStep ==
    \E w \in Workers : WorkerWrites(w) \/ WorkerPanics(w) \/ WorkerFlushes(w)

WriterNext ==
    \/ CallWriteSubSuite
    \/ CallWriteSubSuitePanics
    \/ CallFlush
    \/ (FlushSend /\ UNCHANGED <<split_vars, rw_vars, orch_vars, call_vars, lock_vars>>)
    \/ (FlushRecv /\ UNCHANGED <<split_vars, rw_vars, orch_vars, call_vars, lock_vars>>)
    \/ (WorkerStep /\ UNCHANGED <<split_vars, rw_vars, orch_vars, call_vars, lock_vars>>)

WriterSpec == WriterSpecInit /\ [][WriterNext]_vars

(***************************************************************************)
(* Properties of the writer pool (WriterSpec).                             *)
(***************************************************************************)
\* every file of the request is in the config directory (a later request
\* for the same task may have overwritten it)
Written(gen_suite) ==
    \A f \in FilesOfRequest(gen_suite) : f[1] \in DOMAIN files

\* no SuiteFiles message is waiting in any inbox
NoPendingWrite ==
    \A w \in Workers : \A k \in DOMAIN channel[w] : channel[w][k].type # "SuiteFiles"

\* C5: when flush has returned, every write_sub_suite request sent before it
\* has been handled to the end by the worker that received it: no request is
\* still queued and all the files of every request are written.
C5_FlushIsBarrier ==
    flush.pc = "returned" =>
        /\ NoPendingWrite
        /\ \A k \in DOMAIN requests : Written(requests[k])

\* flush returned after three requests, so that one worker had two of them
C5_Witness ==
    /\ flush.pc = "returned"
    /\ Len(requests) = MaxWrites
    /\ \E k \in DOMAIN requests : Len(requests[k].sub_suites) = 2

(***************************************************************************)
(* lib.rs, taskname.rs, util.rs: the input project and the helpers that    *)
(* read it.  An input task definition is [name, tags, commands], a command *)
(* [func, vars] with vars a function from variable names to strings.       *)
(***************************************************************************)
NoVars == [k \in {} |-> ""]

GenerateCall(task_vars) == [func |-> "generate resmoke tasks", vars |-> task_vars]

\* the task definitions of the project (the `tasks` of `evergreen evaluate`)
ProjectTasks ==
    {[name |-> "compile", tags |-> {},
      commands |-> <<[func |-> "compile", vars |-> NoVars]>>],
     [name |-> "t_gen", tags |-> {},
      commands |-> <<GenerateCall([suite |-> "s1", resmoke_args |-> "--x"])>>],
     [name |-> "t", tags |-> {},
      commands |-> <<GenerateCall([suite |-> "s1"])>>],
     [name |-> "u_gen", tags |-> {},
      commands |-> <<[func |-> "do setup", vars |-> NoVars], GenerateCall(NoVars)>>],
     [name |-> "f_gen", tags |-> {},
      commands |-> <<GenerateCall([is_jstestfuzz |-> "true", suite |-> "s3",
                                   num_tasks |-> "2", num_files |-> "5"])>>]}

\* EvgProject::task_def_map: the definition with the given name
task_def_map(name) == CHOOSE td \in ProjectTasks : td.name = name
TaskDefNames == {td.name : td \in ProjectTasks}

is_task_generated(task) ==
    \E k \in DOMAIN task.commands : task.commands[k].func = "generate resmoke tasks"

get_generate_resmoke_func(task) ==
    LET found == {k \in DOMAIN task.commands :
                     task.commands[k].func = "generate resmoke tasks"}
    IN  task.commands[CHOOSE k \in found : \A j \in found : k <= j]

get_gen_task_var(task, var) ==
    LET func == get_generate_resmoke_func(task)
    IN  IF var \in DOMAIN func.vars THEN Some(func.vars[var]) ELSE None

remove_gen_suffix_ref(task_name) ==
    IF Len(task_name) >= Len(GEN_SUFFIX)
       /\ SubSeq(task_name, Len(task_name) - Len(GEN_SUFFIX) + 1, Len(task_name))
              = GEN_SUFFIX
    THEN SubSeq(task_name, 1, Len(task_name) - Len(GEN_SUFFIX))
    ELSE task_name

find_suite_name(task) ==
    LET suite == get_gen_task_var(task, "suite")
    IN  IF suite.some THEN suite.v ELSE remove_gen_suffix_ref(task.name)

is_fuzzer_task(task) ==
    LET is_jstestfuzz == get_gen_task_var(task, "is_jstestfuzz")
    IN  is_jstestfuzz.some /\ is_jstestfuzz.v = "true"

\* str::parse::<u64> on the one-digit numbers of the project
ParseU64(s) == CHOOSE n \in 0..9 : ToString(n) = s

RECURSIVE CeilLog10_Digits(_)
\* the number of decimal digits of total in place of ceil(log10(total))
CeilLog10_Digits(total) ==
    IF total < 10 THEN 1 ELSE 1 + CeilLog10_Digits(total \div 10)

RECURSIVE CeilLog10(_)
\* (total as f64).log10().ceil() as usize; log10(0) is -inf, which casts to 0
CeilLog10(total) == IF total <= 1 THEN 0 ELSE 1 + CeilLog10((total + 9) \div 10)

RECURSIVE PadZero(_, _)
\* {:0fill$}: zeros in front up to the width
PadZero(digits, width) ==
    IF Len(digits) >= width THEN digits ELSE PadZero("0" \o digits, width)

\* util::name_generated_task; total_tasks.unwrap() panics when an index comes
\* without a total
name_generated_task(parent_name, task_index, total_tasks, variant) ==
    LET suffix == IF variant.some THEN "_" \o variant.v ELSE ""
    IN  IF task_index.some
        THEN IF total_tasks.some
             THEN parent_name \o "_"
                      \o PadZero(ToString(task_index.v), CeilLog10(total_tasks.v))
                      \o suffix
             ELSE Panic
        ELSE parent_name \o "_misc" \o suffix

\* taskname::name_sub_suite
name_sub_suite(parent_name, task_index, total_tasks, build_variant) ==
    LET suffix == IF build_variant.some THEN "_" \o build_variant.v ELSE ""
        width == CeilLog10(total_tasks)
    IN  parent_name \o "_" \o PadZero(ToString(task_index), width) \o suffix

(***************************************************************************)
(* split_tasks.rs and fuzzer_tasks.rs: what a generated suite and a fuzzer *)
(* task contribute to the output.  An output task definition is            *)
(* [name, commands, depends_on] with the commands as function names.       *)
(***************************************************************************)
\* a task reference that leaves activate unset
TaskRef_Unset(name) == [name |-> name, activate |-> None]

\* SubSuite::task_ref; EvgTask::get_reference(None, Some(false))
TaskRef(name) == [name |-> name, activate |-> Some(FALSE)]

\* resmoke_commands with the multiversion setup in front of do setup
resmoke_commands_SetupFirst(run_test_fn_name, requires_multiversion_setup) ==
    (IF requires_multiversion_setup
     THEN <<"git get project no modules", "add git tag", "do multiversion setup">>
     ELSE <<>>)
    \o <<"do setup", "configure evergreen api credentials", run_test_fn_name>>

\* split_tasks.rs resmoke_commands (and its copy in resmoke_task_gen.rs)
resmoke_commands(run_test_fn_name, requires_multiversion_setup) ==
    (IF requires_multiversion_setup
     THEN <<"git get project no modules", "add git tag">> ELSE <<>>)
    \o <<"do setup", "configure evergreen api credentials">>
    \o (IF requires_multiversion_setup THEN <<"do multiversion setup">> ELSE <<>>)
    \o <<run_test_fn_name>>

\* SubSuite::task
SubSuiteTask(s, gen_params) ==
    [name |-> s.name,
     commands |-> resmoke_commands("run generated tests",
                                   gen_params.require_multiversion_setup),
     depends_on |-> <<"archive_dist_test">>]

\* GeneratedSuite::task_refs, display_task, execution_tasks
task_refs(gen_suite) ==
    [k \in DOMAIN gen_suite.sub_suites |-> TaskRef(gen_suite.sub_suites[k].name)]
display_task(gen_suite) ==
    [name |-> gen_suite.task_name,
     execution_tasks |-> [k \in DOMAIN gen_suite.sub_suites |->
                              gen_suite.sub_suites[k].name]]
\* execution_tasks that defines the first sub-task only
execution_tasks_FirstOnly(gen_suite, gen_params) ==
    [k \in DOMAIN gen_suite.sub_suites \cap {1} |->
        SubSuiteTask(gen_suite.sub_suites[k], gen_params)]

execution_tasks(gen_suite, gen_params) ==
    [k \in DOMAIN gen_suite.sub_suites |->
        SubSuiteTask(gen_suite.sub_suites[k], gen_params)]

\* ResmokeGenService::create_sub_task and generate_tasks
create_sub_task(sub_suite_file, params) ==
    [name |-> sub_suite_file,
     commands |-> resmoke_commands("run generated tests",
                                   params.require_multiversion_setup),
     depends_on |-> <<"archive_dist_test">>]
generate_tasks(generated_suite, params) ==
    [k \in DOMAIN generated_suite.sub_suites |->
        create_sub_task(generated_suite.sub_suites[k].name, params)]

\* task_def_to_gen_params: the part the sub-task definitions depend on
task_def_to_gen_params(task_def) == [require_multiversion_setup |-> FALSE]

\* SuiteFixtureType::get_version_combinations
get_version_combinations(fixture_type) ==
    IF fixture_type = "Shard" THEN <<"new_old_old_new">>
    ELSE IF fixture_type = "Repl" THEN <<"new_new_old", "new_old_new", "old_new_new">>
    ELSE <<"">>

\* ResmokeSuiteConfig::get_executor: map.get("executor").unwrap() panics when
\* the root mapping has no executor key
get_executor(config) ==
    IF config.tag = "Hash"
    THEN IF "executor" \in DOMAIN config.map
         THEN Ok(config.map["executor"])
         ELSE Panic
    ELSE Err("Expected map at root of resmoke config")

\* the classification of a fixture node with every class taken for a
\* replica set
FixtureClass_AlwaysRepl(fixture) ==
    IF fixture.tag = "Hash"
    THEN IF "class" \in DOMAIN fixture.map
         THEN IF fixture.map["class"].tag = "String" THEN "Repl" ELSE "Other"
         ELSE "Other"
    ELSE "Other"

\* get_fixture_type, lines 111-131: the classification of the fixture node
FixtureClass(fixture) ==
    IF fixture.tag = "Hash"
    THEN IF "class" \in DOMAIN fixture.map
         THEN IF fixture.map["class"].tag = "String"
              THEN IF fixture.map["class"].v = "ShardedClusterFixture" THEN "Shard"
                   ELSE IF fixture.map["class"].v = "ReplicaSetFixture" THEN "Repl"
                   ELSE "Other"
              ELSE "Other"
         ELSE "Other"
    ELSE "Other"

\* ResmokeSuiteConfig::get_fixture_type: `?` hands on what get_executor gave
get_fixture_type(config) ==
    LET executor == get_executor(config)
    IN  IF executor.tag # "Ok" THEN executor
        ELSE IF executor.v.tag = "Hash"
        THEN IF "fixture" \in DOMAIN executor.v.map
             THEN Ok(FixtureClass(executor.v.map["fixture"]))
             ELSE Ok("Shell")
        ELSE Err("Expected map as executor")

\* FuzzerGenTaskParams::get_version_combination: the unwrap panics on an Err
get_version_combination(params) ==
    LET fixture_type == get_fixture_type(params.suite_config)
    IN  IF fixture_type.tag = "Ok"
        THEN Ok(get_version_combinations(fixture_type.v))
        ELSE Panic

\* task_def_to_fuzzer_params: the fields the sub-task names and commands use
task_def_to_fuzzer_params(task_def, variant_name) ==
    [task_name |-> remove_gen_suffix_ref(task_def.name),
     variant |-> variant_name,
     suite |-> find_suite_name(task_def),
     num_tasks |-> ParseU64(get_gen_task_var(task_def, "num_tasks").v),
     require_multiversion_setup |-> Some("multiversion" \in task_def.tags),
     suite_config |-> read_suite_config(find_suite_name(task_def))]

\* GenFuzzerServiceImpl::build_name: the non-empty parts joined with "_"
RECURSIVE JoinNonEmpty(_)
JoinNonEmpty(parts) ==
    IF parts = <<>> THEN ""
    ELSE LET rest == JoinNonEmpty(Tail(parts))
         IN  IF Head(parts) = "" THEN rest
             ELSE IF rest = "" THEN Head(parts)
             ELSE Head(parts) \o "_" \o rest
build_name(base_name, old_version, mixed_bin_version) ==
    JoinNonEmpty(<<base_name, old_version, mixed_bin_version>>)

\* build_run_tests_vars that always passes the suite of the params
build_run_tests_vars_PlainSuite(params, suite_name, bin_version) ==
    [task |-> params.task_name,
     require_multiversion_setup |->
         params.require_multiversion_setup.some /\ params.require_multiversion_setup.v,
     suite |-> params.suite,
     multiversion_exclude_tags_version |-> bin_version]

\* FuzzerGenTaskParams::build_run_tests_vars: the vars that depend on the
\* arguments (the others copy fields of the params)
build_run_tests_vars(params, suite_name, bin_version) ==
    [task |-> params.task_name,
     require_multiversion_setup |->
         params.require_multiversion_setup.some /\ params.require_multiversion_setup.v,
     suite |-> IF suite_name.some THEN suite_name.v ELSE params.suite,
     multiversion_exclude_tags_version |-> bin_version]

\* build_fuzzer_sub_task with the multiversion setup placed after the
\* jstestfuzz setup
build_fuzzer_sub_task_LateSetup(task_name, task_index, params, suite_name, bin_version) ==
    LET multiversion == params.require_multiversion_setup.some
                        /\ params.require_multiversion_setup.v
    IN  [name |-> name_generated_task(task_name, Some(task_index),
                                      Some(params.num_tasks), Some(params.variant)),
         commands |->
             (IF multiversion
              THEN <<"git get project no modules", "add git tag">> ELSE <<>>)
             \o <<"do setup", "configure evergreen api credentials", "setup jstestfuzz">>
             \o (IF multiversion THEN <<"do multiversion setup">> ELSE <<>>)
             \o <<"run jstestfuzz", "run generated tests">>,
         run_tests_vars |-> build_run_tests_vars(params, suite_name, bin_version),
         depends_on |-> <<"archive_dist_test_debug">>]

\* build_fuzzer_sub_task, lines 229-276
build_fuzzer_sub_task(task_name, task_index, params, suite_name, bin_version) ==
    LET multiversion == params.require_multiversion_setup.some
                        /\ params.require_multiversion_setup.v
    IN  [name |-> name_generated_task(task_name, Some(task_index),
                                      Some(params.num_tasks), Some(params.variant)),
         commands |->
             (IF multiversion
              THEN <<"git get project no modules", "add git tag">> ELSE <<>>)
             \o <<"do setup", "configure evergreen api credentials">>
             \o (IF multiversion THEN <<"do multiversion setup">> ELSE <<>>)
             \o <<"setup jstestfuzz", "run jstestfuzz", "run generated tests">>,
         run_tests_vars |-> build_run_tests_vars(params, suite_name, bin_version),
         depends_on |-> <<"archive_dist_test_debug">>]

\* the num_tasks sub-tasks of one base name
FuzzerSubTasks(base_task_name, params, suite_name, bin_version) ==
    [k \in 1..params.num_tasks |->
        build_fuzzer_sub_task(base_task_name, k - 1, params, suite_name, bin_version)]

\* generate_fuzzer_task that expands the first version combination only
generate_fuzzer_task_FirstCombination(params, last_versions) ==
    LET multiversion == params.require_multiversion_setup.some
                        /\ params.require_multiversion_setup.v
        version_combinations == get_version_combination(params)
        per_version(version) ==
            Flatten([c \in DOMAIN version_combinations.v \cap {1} |->
                        FuzzerSubTasks(
                            build_name(params.task_name, version,
                                       version_combinations.v[c]),
                            params,
                            Some(build_name(params.suite, version,
                                            version_combinations.v[c])),
                            Some(version_combinations.v[c]))])
    IN  IF multiversion /\ version_combinations = Panic THEN Panic
        ELSE [task_name |-> params.task_name,
              sub_tasks |->
                  IF multiversion
                  THEN Flatten([n \in DOMAIN last_versions |->
                                   per_version(last_versions[n])])
                  ELSE FuzzerSubTasks(params.task_name, params, None, None)]

\* GenFuzzerServiceImpl::generate_fuzzer_task: the FuzzerTask, or Panic when
\* get_version_combination panics
generate_fuzzer_task(params, last_versions) ==
    LET multiversion == params.require_multiversion_setup.some
                        /\ params.require_multiversion_setup.v
        version_combinations == get_version_combination(params)
        per_version(version) ==
            Flatten([c \in DOMAIN version_combinations.v |->
                        FuzzerSubTasks(
                            build_name(params.task_name, version,
                                       version_combinations.v[c]),
                            params,
                            Some(build_name(params.suite, version,
                                            version_combinations.v[c])),
                            Some(version_combinations.v[c]))])
    IN  IF multiversion /\ version_combinations = Panic THEN Panic
        ELSE [task_name |-> params.task_name,
              sub_tasks |->
                  IF multiversion
                  THEN Flatten([n \in DOMAIN last_versions |->
                                   per_version(last_versions[n])])
                  ELSE FuzzerSubTasks(params.task_name, params, None, None)]

\* FuzzerTask::build_task_ref, build_display_task
build_task_ref(fuzzer_task) ==
    [k \in DOMAIN fuzzer_task.sub_tasks |-> TaskRef(fuzzer_task.sub_tasks[k].name)]
build_display_task(fuzzer_task) ==
    [name |-> fuzzer_task.task_name,
     execution_tasks |-> [k \in DOMAIN fuzzer_task.sub_tasks |->
                              fuzzer_task.sub_tasks[k].name]]

(***************************************************************************)
(* bin/gen_version.rs and bin/gen_build_variant.rs: the two orchestrators. *)
(*                                                                         *)
(* A task of the runtime is a record with its position pc and the value    *)
(* val it holds (a reply, a history, a generated suite).  worker[<<v, t>>] *)
(* is the task spawned for generator task t of variant v, producer[t] the  *)
(* computation the memo actor spawned for task t.                          *)
(***************************************************************************)
Variants == {"vA", "vB"}

\* the task lists a build variant of the input may have ("missing" has no
\* definition in the project)
TaskLists == {<<"compile">>, <<"missing", "t_gen">>, <<"t_gen", "f_gen">>,
              <<"u_gen", "t_gen">>, <<"t_gen", "t">>}

\* the task lists of the other variant of a gen_version run
SharedLists == {<<"compile">>, <<"missing", "t_gen">>}

\* the inputs of a run: gen_version iterates a HashMap of the variants, in
\* either order; gen_build_variant reads its variant from the expansions
Projects(binary) ==
    IF binary = "version"
    THEN {[buildvariants |-> [v \in Variants |-> IF v = o[1] THEN l ELSE m],
           order |-> o, build_variant |-> o[1]] :
             l \in TaskLists, m \in SharedLists, o \in {<<"vA", "vB">>, <<"vB", "vA">>}}
    ELSE {[buildvariants |-> [v \in Variants |-> IF v = x THEN l ELSE <<"compile">>],
           order |-> <<x>>, build_variant |-> x] :
             x \in Variants, l \in TaskLists}

\* the generator tasks of variant v in list order: the tasks the spawning
\* loop does not skip
GenTasksOf(v) ==
    SelectSeq(project.buildvariants[v],
              LAMBDA n : n \in TaskDefNames /\ is_task_generated(task_def_map(n)))

GenTaskNames == {td.name : td \in {d \in ProjectTasks : is_task_generated(d)}}
Splittable == {n \in GenTaskNames : ~is_fuzzer_task(task_def_map(n))}

\* TestDiscovery::discover_tests of the project's suites, and the files on disk
discover_tests(suite_name) == PoolTests
\* TaskHistoryService::get_task_history with the statistics test_map
get_task_history(task, variant, suite, test_map) ==
    [suite_name |-> suite, task_name |-> task, test_map |-> test_map]
\* TaskSplitter::split_task with the configured n_suites
SplitTask(task_stats, bv_name) ==
    split_task(task_stats, discover_tests(task_stats.suite_name), TestFiles,
               PoolNSuites, bv_name)

GeneratedConfigNew == [gen_task_def |-> <<>>, gen_task_specs |-> <<>>,
                       display_tasks |-> <<>>]

\* the critical section of a splittable worker with the definitions added
\* although the task was seen before
AddGeneratedSuite_AlwaysDefs(gen_config, add_defs, gen_suite, gen_params) ==
    [gen_task_def |-> gen_config.gen_task_def
                          \o execution_tasks(gen_suite, gen_params),
     gen_task_specs |-> gen_config.gen_task_specs \o task_refs(gen_suite),
     display_tasks |-> Append(gen_config.display_tasks, display_task(gen_suite))]

\* the critical section of a splittable worker with the references put in
\* front of the list
AddGeneratedSuite_RefsInFront(gen_config, add_defs, gen_suite, gen_params) ==
    [gen_task_def |-> gen_config.gen_task_def
                          \o (IF add_defs THEN execution_tasks(gen_suite, gen_params)
                              ELSE <<>>),
     gen_task_specs |-> task_refs(gen_suite) \o gen_config.gen_task_specs,
     display_tasks |-> Append(gen_config.display_tasks, display_task(gen_suite))]

\* the critical section of a splittable worker: the definitions if add_defs,
\* the references and the display task always
AddGeneratedSuite(gen_config, add_defs, gen_suite, gen_params) ==
    [gen_task_def |-> gen_config.gen_task_def
                          \o (IF add_defs THEN execution_tasks(gen_suite, gen_params)
                              ELSE <<>>),
     gen_task_specs |-> gen_config.gen_task_specs \o task_refs(gen_suite),
     display_tasks |-> Append(gen_config.display_tasks, display_task(gen_suite))]

\* the critical section of a fuzzer worker
AddFuzzerTask(gen_config, generated_task) ==
    [gen_task_def |-> gen_config.gen_task_def \o generated_task.sub_tasks,
     gen_task_specs |-> gen_config.gen_task_specs \o build_task_ref(generated_task),
     display_tasks |-> Append(gen_config.display_tasks,
                              build_display_task(generated_task))]

\* the workers a spawning loop of variant v starts for the first n of its
\* generator tasks
Spawned(v, n, first_pc) ==
    [k \in DOMAIN worker |->
        IF k[1] = v /\ \E j \in 1..n : GenTasksOf(v)[j] = k[2]
        THEN [pc |-> IF is_fuzzer_task(task_def_map(k[2])) THEN "gen" ELSE first_pc,
              val |-> None]
        ELSE worker[k]]

\* the positions at which the spawning loop of variant v builds fuzzer params
FuzzerPositions(v) ==
    {j \in DOMAIN GenTasksOf(v) : is_fuzzer_task(task_def_map(GenTasksOf(v)[j]))}

\* `for handle in handles { handle.await.unwrap() }` panics: the first
\* handle in order that has not finished normally has panicked
JoinPanics(handles, pc_of) ==
    \E k \in DOMAIN handles :
        /\ pc_of[handles[k]].pc = "panicked"
        /\ \A j \in 1..(k - 1) : pc_of[handles[j]].pc = "done"

Init ==
    /\ SplitIdle
    /\ RewriteIdle
    /\ CallIdle
    /\ LockIdle
    /\ WriterInit
    /\ mode \in {"version", "variant"}
    /\ project \in Projects(mode)
    /\ main = [pc |-> "start"]
    /\ bv = [v \in Variants |-> [pc |-> "idle"]]
    /\ worker = [k \in Variants \X GenTaskNames |-> [pc |-> "idle", val |-> None]]
    /\ inbox = <<>>
    /\ generated_tasks = <<>>
    /\ waiting_tasks = <<>>
    /\ producer = [t \in Splittable |-> [pc |-> "idle", val |-> None]]
    /\ calls = [t \in Splittable |-> [history |-> 0, split |-> 0]]
    /\ generated_config = [v \in Variants |-> GeneratedConfigNew]
    /\ seen_tasks = {}
    /\ generated_build_variants = <<>>
    /\ task_definitions = <<>>
    /\ found_tasks = {}
    /\ output = None

agg_vars == <<generated_config, seen_tasks, generated_build_variants,
              task_definitions, found_tasks, output>>
actor_vars == <<inbox, generated_tasks, waiting_tasks>>
other_vars == <<split_vars, rw_vars, call_vars, lock_vars, mode, project>>

(***************************************************************************)
(* gen_version.rs                                                          *)
(***************************************************************************)
\* main, lines 319-420: one task per build variant
MainSpawnVariants ==
    /\ mode = "version"
    /\ main.pc = "start"
    /\ bv' = [v \in Variants |-> [pc |-> "start"]]
    /\ main' = [pc |-> "join"]
    /\ UNCHANGED <<worker, producer, calls, actor_vars, agg_vars, writer_vars, other_vars>>

\* a variant's task, lines 333-400: one worker per generator task; building
\* the parameters of a fuzzer task reads its suite config and panics if that
\* fails, after the workers of the earlier tasks were spawned
VariantSpawnWorkers(v) ==
    /\ mode = "version"
    /\ ProcessRuns
    /\ bv[v].pc = "start"
    /\ \/ /\ worker' = Spawned(v, Len(GenTasksOf(v)), "send")
          /\ bv' = [bv EXCEPT ![v] = [pc |-> "join"]]
       \/ \E j \in FuzzerPositions(v) :
             /\ worker' = Spawned(v, j - 1, "send")
             /\ bv' = [bv EXCEPT ![v] = [pc |-> "panicked"]]
    /\ UNCHANGED <<main, producer, calls, actor_vars, agg_vars, writer_vars, other_vars>>

\* GenTaskActorHandle::get_task, lines 587-597: the GetTask message
WorkerGetTask(v, t) ==
    /\ mode = "version"
    /\ ProcessRuns
    /\ worker[<<v, t>>].pc = "send"
    /\ Len(inbox) < GenTaskChannelCapacity
    /\ inbox' = Append(inbox, [type |-> "GetTask", task_name |-> t,
                               suite_name |-> find_suite_name(task_def_map(t)),
                               bv_name |-> v, respond_to |-> <<v, t>>])
    /\ worker' = [worker EXCEPT ![<<v, t>>].pc = "recv"]
    /\ UNCHANGED <<main, bv, producer, calls, generated_tasks, waiting_tasks,
                   agg_vars, writer_vars, other_vars>>

\* handle_message without the waiting list: every request for a task that is
\* not generated yet starts a computation
ActorGetTask_NoCoalesce ==
    /\ mode = "version"
    /\ ProcessRuns
    /\ inbox # <<>>
    /\ Head(inbox).type = "GetTask"
    /\ LET msg == Head(inbox)
       IN  IF msg.task_name \in DOMAIN generated_tasks
           THEN /\ worker' = [worker EXCEPT ![msg.respond_to].val =
                                 Some(generated_tasks[msg.task_name])]
                /\ UNCHANGED <<waiting_tasks, producer>>
           ELSE /\ waiting_tasks' = MapInsert(waiting_tasks, msg.task_name,
                                              <<msg.respond_to>>)
                /\ producer' = [producer EXCEPT ![msg.task_name] =
                                   [pc |-> "history", val |-> None,
                                    bv_name |-> msg.bv_name,
                                    suite_name |-> msg.suite_name]]
                /\ UNCHANGED worker
    /\ inbox' = Tail(inbox)
    /\ UNCHANGED <<main, bv, calls, generated_tasks, agg_vars, writer_vars, other_vars>>

\* handle_message that answers a request for a generated task and starts the
\* computation again
ActorGetTask_Recompute ==
    /\ mode = "version"
    /\ ProcessRuns
    /\ inbox # <<>>
    /\ Head(inbox).type = "GetTask"
    /\ LET msg == Head(inbox)
       IN  IF msg.task_name \in DOMAIN generated_tasks
           THEN /\ worker' = [worker EXCEPT ![msg.respond_to].val =
                                 Some(generated_tasks[msg.task_name])]
                /\ producer' = [producer EXCEPT ![msg.task_name] =
                                   [pc |-> "history", val |-> None,
                                    bv_name |-> msg.bv_name,
                                    suite_name |-> msg.suite_name]]
                /\ UNCHANGED waiting_tasks
           ELSE IF msg.task_name \in DOMAIN waiting_tasks
           THEN /\ waiting_tasks' = [waiting_tasks EXCEPT ![msg.task_name] =
                                        Append(@, msg.respond_to)]
                /\ UNCHANGED <<worker, producer>>
           ELSE /\ waiting_tasks' = MapInsert(waiting_tasks, msg.task_name,
                                              <<msg.respond_to>>)
                /\ producer' = [producer EXCEPT ![msg.task_name] =
                                   [pc |-> "history", val |-> None,
                                    bv_name |-> msg.bv_name,
                                    suite_name |-> msg.suite_name]]
                /\ UNCHANGED worker
    /\ inbox' = Tail(inbox)
    /\ UNCHANGED <<main, bv, calls, generated_tasks, agg_vars, writer_vars, other_vars>>

\* GenTaskActor::run + handle_message on GetTask, lines 492-537
ActorGetTask ==
    /\ mode = "version"
    /\ ProcessRuns
    /\ inbox # <<>>
    /\ Head(inbox).type = "GetTask"
    /\ LET msg == Head(inbox)
       IN  IF msg.task_name \in DOMAIN generated_tasks
           THEN /\ worker' = [worker EXCEPT ![msg.respond_to].val =
                                 Some(generated_tasks[msg.task_name])]
                /\ UNCHANGED <<waiting_tasks, producer>>
           ELSE IF msg.task_name \in DOMAIN waiting_tasks
           THEN /\ waiting_tasks' = [waiting_tasks EXCEPT ![msg.task_name] =
                                        Append(@, msg.respond_to)]
                /\ UNCHANGED <<worker, producer>>
           ELSE /\ waiting_tasks' = MapInsert(waiting_tasks, msg.task_name,
                                              <<msg.respond_to>>)
                /\ producer' = [producer EXCEPT ![msg.task_name] =
                                   [pc |-> "history", val |-> None,
                                    bv_name |-> msg.bv_name,
                                    suite_name |-> msg.suite_name]]
                /\ UNCHANGED worker
    /\ inbox' = Tail(inbox)
    /\ UNCHANGED <<main, bv, calls, generated_tasks, agg_vars, writer_vars, other_vars>>

\* handle_message on AddTask, lines 539-549: the suite is stored and sent to
\* every waiter
ActorAddTask ==
    /\ mode = "version"
    /\ ProcessRuns
    /\ inbox # <<>>
    /\ Head(inbox).type = "AddTask"
    /\ LET msg == Head(inbox)
       IN  /\ generated_tasks' = MapInsert(generated_tasks, msg.task_name,
                                           msg.gen_suite)
           /\ IF msg.task_name \in DOMAIN waiting_tasks
              THEN /\ worker' = [k \in DOMAIN worker |->
                                    IF k \in Range(waiting_tasks[msg.task_name])
                                    THEN [worker[k] EXCEPT !.val = Some(msg.gen_suite)]
                                    ELSE worker[k]]
                   /\ waiting_tasks' = [waiting_tasks EXCEPT ![msg.task_name] = <<>>]
              ELSE UNCHANGED <<worker, waiting_tasks>>
    /\ inbox' = Tail(inbox)
    /\ UNCHANGED <<main, bv, producer, calls, agg_vars, writer_vars, other_vars>>

\* the spawned computation, lines 509-513: the history fetch, whose unwrap
\* panics when the statistics request fails
ProducerHistory(t) ==
    /\ mode = "version"
    /\ ProcessRuns
    /\ producer[t].pc = "history"
    /\ calls' = [calls EXCEPT ![t].history = @ + 1]
    /\ \/ \E test_map \in PoolHistories :
             producer' = [producer EXCEPT
                 ![t].pc = "split",
                 ![t].val = Some(get_task_history(remove_gen_suffix_ref(t),
                                                  producer[t].bv_name,
                                                  producer[t].suite_name, test_map))]
       \/ producer' = [producer EXCEPT ![t].pc = "panicked"]
    /\ UNCHANGED <<main, bv, worker, actor_vars, agg_vars, writer_vars, other_vars>>

\* the spawned computation going from the split to the AddTask message
\* without write_sub_suite
ProducerSplit_NoWrite(t) ==
    /\ mode = "version"
    /\ ProcessRuns
    /\ producer[t].pc = "split"
    /\ calls' = [calls EXCEPT ![t].split = @ + 1]
    /\ \/ producer' = [producer EXCEPT ![t].pc = "panicked"]
       \/ producer' = [producer EXCEPT
              ![t].pc = "add",
              ![t].val = Some(SplitTask(producer[t].val.v, producer[t].bv_name))]
    /\ UNCHANGED <<main, bv, worker, actor_vars, agg_vars, writer_vars, other_vars>>

\* the spawned computation, line 516: the split, which panics when test
\* discovery fails
ProducerSplit(t) ==
    /\ mode = "version"
    /\ ProcessRuns
    /\ producer[t].pc = "split"
    /\ calls' = [calls EXCEPT ![t].split = @ + 1]
    /\ \/ producer' = [producer EXCEPT ![t].pc = "panicked"]
       \/ producer' = [producer EXCEPT
              ![t].pc = "write",
              ![t].val = Some(SplitTask(producer[t].val.v, producer[t].bv_name))]
    /\ UNCHANGED <<main, bv, worker, actor_vars, agg_vars, writer_vars, other_vars>>

\* the spawned computation, lines 523-526: write_sub_suite under the lock of
\* the writer handle
ProducerWrite(t) ==
    /\ mode = "version"
    /\ ProcessRuns
    /\ producer[t].pc = "write"
    /\ flush.pc = "idle"
    /\ \/ /\ WriteSubSuiteOk(producer[t].val.v)
          /\ producer' = [producer EXCEPT ![t].pc = "add"]
       \/ /\ WriteSubSuitePanics
          /\ producer' = [producer EXCEPT ![t].pc = "panicked"]
    /\ UNCHANGED <<main, bv, worker, calls, actor_vars, agg_vars, other_vars>>

\* the spawned computation, lines 528-532: the AddTask message
ProducerAddTask(t) ==
    /\ mode = "version"
    /\ ProcessRuns
    /\ producer[t].pc = "add"
    /\ Len(inbox) < GenTaskChannelCapacity
    /\ inbox' = Append(inbox, [type |-> "AddTask", task_name |-> t,
                               gen_suite |-> producer[t].val.v])
    /\ producer' = [producer EXCEPT ![t].pc = "done"]
    /\ UNCHANGED <<main, bv, worker, calls, generated_tasks, waiting_tasks,
                   agg_vars, writer_vars, other_vars>>

\* a splittable worker, lines 386-395, once get_task has returned
WorkerCritical(v, t) ==
    /\ mode = "version"
    /\ ProcessRuns
    /\ worker[<<v, t>>].pc = "recv"
    /\ worker[<<v, t>>].val.some
    /\ generated_config' = [generated_config EXCEPT ![v] =
           AddGeneratedSuite(@, t \notin seen_tasks, worker[<<v, t>>].val.v,
                             task_def_to_gen_params(task_def_map(t)))]
    /\ seen_tasks' = seen_tasks \cup {t}
    /\ worker' = [worker EXCEPT ![<<v, t>>].pc = "done"]
    /\ UNCHANGED <<main, bv, producer, calls, actor_vars, generated_build_variants,
                   task_definitions, found_tasks, output, writer_vars, other_vars>>

\* a fuzzer worker, lines 349-369: Ok is added to the variant's config, Err
\* ends the process with exit(1)
WorkerFuzzer(v, t) ==
    /\ mode = "version"
    /\ ProcessRuns
    /\ worker[<<v, t>>].pc = "gen"
    /\ \/ /\ main' = [pc |-> "exit1"]
          /\ UNCHANGED <<generated_config, worker>>
       \/ /\ generated_config' = [generated_config EXCEPT ![v] =
                 AddFuzzerTask(@, generate_fuzzer_task(
                                      task_def_to_fuzzer_params(task_def_map(t), v),
                                      LastVersions))]
          /\ worker' = [worker EXCEPT ![<<v, t>>].pc = "done"]
          /\ UNCHANGED main
    /\ UNCHANGED <<bv, producer, calls, actor_vars, seen_tasks, generated_build_variants,
                   task_definitions, found_tasks, output, writer_vars, other_vars>>

\* a variant's task, lines 402-418: its workers joined, its build variant and
\* definitions appended to the shared lists
VariantAggregate(v) ==
    /\ mode = "version"
    /\ ProcessRuns
    /\ bv[v].pc = "join"
    /\ \A k \in DOMAIN GenTasksOf(v) : worker[<<v, GenTasksOf(v)[k]>>].pc = "done"
    /\ generated_build_variants' =
           Append(generated_build_variants,
                  [name |-> v,
                   tasks |-> generated_config[v].gen_task_specs,
                   display_tasks |-> Some(generated_config[v].display_tasks),
                   activate |-> Some(FALSE)])
    /\ task_definitions' = task_definitions \o generated_config[v].gen_task_def
    /\ bv' = [bv EXCEPT ![v] = [pc |-> "done"]]
    /\ UNCHANGED <<main, worker, producer, calls, actor_vars, generated_config,
                   seen_tasks, found_tasks, output, writer_vars, other_vars>>

\* main writing the output as soon as the first variant's task is done
MainJoinVariants_FirstOnly ==
    /\ mode = "version"
    /\ main.pc = "join"
    /\ bv[project.order[1]].pc = "done"
    /\ output' = Some([buildvariants |-> generated_build_variants,
                       tasks |-> task_definitions])
    /\ main' = [pc |-> "flush"]
    /\ flush' = [flush EXCEPT !.pc = "send", !.k = 0]
    /\ UNCHANGED <<bv, worker, producer, calls, actor_vars, generated_config,
                   seen_tasks, generated_build_variants, task_definitions, found_tasks,
                   channel, index, worker_alive, files, requests, other_vars>>

\* main, lines 422-445: the variants joined in order (a panicked one makes
\* the unwrap panic), the output file written, the flush started
MainJoinVariants ==
    /\ mode = "version"
    /\ main.pc = "join"
    /\ \/ /\ \A v \in Variants : bv[v].pc = "done"
          /\ \/ /\ output' = Some([buildvariants |-> generated_build_variants,
                                   tasks |-> task_definitions])
                /\ main' = [pc |-> "flush"]
                /\ flush' = [flush EXCEPT !.pc = "send", !.k = 0]
             \/ /\ main' = [pc |-> "panicked"]
                /\ UNCHANGED <<output, flush>>
       \/ /\ JoinPanics(project.order, bv)
          /\ main' = [pc |-> "panicked"]
          /\ UNCHANGED <<output, flush>>
    /\ UNCHANGED <<bv, worker, producer, calls, actor_vars, generated_config,
                   seen_tasks, generated_build_variants, task_definitions, found_tasks,
                   channel, index, worker_alive, files, requests, other_vars>>

(***************************************************************************)
(* gen_build_variant.rs                                                    *)
(***************************************************************************)
\* the variant named by the expansions, and its workers in spawning order
TheVariant == project.build_variant
Handles == [k \in DOMAIN GenTasksOf(TheVariant) |->
               <<TheVariant, GenTasksOf(TheVariant)[k]>>]

\* main, lines 295-374: one worker per generator task of the variant;
\* building the parameters of a fuzzer task panics if its suite config
\* cannot be read
BvMainSpawnWorkers ==
    /\ mode = "variant"
    /\ main.pc = "start"
    /\ \/ /\ worker' = Spawned(TheVariant, Len(GenTasksOf(TheVariant)), "history")
          /\ found_tasks' = Range(GenTasksOf(TheVariant))
          /\ main' = [pc |-> "join"]
       \/ \E j \in FuzzerPositions(TheVariant) :
             /\ worker' = Spawned(TheVariant, j - 1, "history")
             /\ found_tasks' = {GenTasksOf(TheVariant)[i] : i \in 1..j}
             /\ main' = [pc |-> "panicked"]
    /\ UNCHANGED <<bv, producer, calls, actor_vars, generated_config, seen_tasks,
                   generated_build_variants, task_definitions, output,
                   writer_vars, other_vars>>

\* a splittable worker, lines 331-335: the history fetch
BvWorkerHistory(t) ==
    /\ mode = "variant"
    /\ ProcessRuns
    /\ worker[<<TheVariant, t>>].pc = "history"
    /\ calls' = [calls EXCEPT ![t].history = @ + 1]
    /\ \/ \E test_map \in PoolHistories :
             worker' = [worker EXCEPT
                 ![<<TheVariant, t>>].pc = "split",
                 ![<<TheVariant, t>>].val =
                     Some(get_task_history(remove_gen_suffix_ref(t), TheVariant,
                                           find_suite_name(task_def_map(t)), test_map))]
       \/ worker' = [worker EXCEPT ![<<TheVariant, t>>].pc = "panicked"]
    /\ UNCHANGED <<main, bv, producer, actor_vars, agg_vars, writer_vars, other_vars>>

\* a splittable worker, lines 338-339: the split
BvWorkerSplit(t) ==
    /\ mode = "variant"
    /\ ProcessRuns
    /\ worker[<<TheVariant, t>>].pc = "split"
    /\ calls' = [calls EXCEPT ![t].split = @ + 1]
    /\ \/ worker' = [worker EXCEPT ![<<TheVariant, t>>].pc = "panicked"]
       \/ worker' = [worker EXCEPT
              ![<<TheVariant, t>>].pc = "write",
              ![<<TheVariant, t>>].val =
                  Some(SplitTask(worker[<<TheVariant, t>>].val.v, TheVariant))]
    /\ UNCHANGED <<main, bv, producer, actor_vars, agg_vars, writer_vars, other_vars>>

\* a splittable worker, lines 347-350: write_sub_suite under the lock
BvWorkerWrite(t) ==
    /\ mode = "variant"
    /\ ProcessRuns
    /\ worker[<<TheVariant, t>>].pc = "write"
    /\ flush.pc = "idle"
    /\ \/ /\ WriteSubSuiteOk(worker[<<TheVariant, t>>].val.v)
          /\ worker' = [worker EXCEPT ![<<TheVariant, t>>].pc = "critical"]
       \/ /\ WriteSubSuitePanics
          /\ worker' = [worker EXCEPT ![<<TheVariant, t>>].pc = "panicked"]
    /\ UNCHANGED <<main, bv, producer, calls, actor_vars, agg_vars, other_vars>>

\* a splittable worker, lines 357-362: definitions, references, display task
BvWorkerCritical(t) ==
    /\ mode = "variant"
    /\ ProcessRuns
    /\ worker[<<TheVariant, t>>].pc = "critical"
    /\ generated_config' = [generated_config EXCEPT ![TheVariant] =
           AddGeneratedSuite(@, TRUE, worker[<<TheVariant, t>>].val.v,
                             task_def_to_gen_params(task_def_map(t)))]
    /\ worker' = [worker EXCEPT ![<<TheVariant, t>>].pc = "done"]
    /\ UNCHANGED <<main, bv, producer, calls, actor_vars, seen_tasks,
                   generated_build_variants, task_definitions, found_tasks, output,
                   writer_vars, other_vars>>

\* a fuzzer worker, lines 307-317: an Err makes the unwrap panic
BvWorkerFuzzer(t) ==
    /\ mode = "variant"
    /\ ProcessRuns
    /\ worker[<<TheVariant, t>>].pc = "gen"
    /\ \/ /\ worker' = [worker EXCEPT ![<<TheVariant, t>>].pc = "panicked"]
          /\ UNCHANGED generated_config
       \/ /\ generated_config' = [generated_config EXCEPT ![TheVariant] =
                 AddFuzzerTask(@, generate_fuzzer_task(
                                      task_def_to_fuzzer_params(task_def_map(t),
                                                                TheVariant),
                                      LastVersions))]
          /\ worker' = [worker EXCEPT ![<<TheVariant, t>>].pc = "done"]
    /\ UNCHANGED <<main, bv, producer, calls, actor_vars, seen_tasks,
                   generated_build_variants, task_definitions, found_tasks, output,
                   writer_vars, other_vars>>

\* main, lines 376-405: the workers joined in order, the output file written,
\* the flush started
BvMainJoin ==
    /\ mode = "variant"
    /\ main.pc = "join"
    /\ \/ /\ \A k \in DOMAIN Handles : worker[Handles[k]].pc = "done"
          /\ \/ /\ output' = Some(
                       [buildvariants |->
                            <<[name |-> TheVariant,
                               tasks |-> generated_config[TheVariant].gen_task_specs,
                               display_tasks |->
                                   Some(generated_config[TheVariant].display_tasks),
                               activate |-> None]>>,
                        tasks |-> generated_config[TheVariant].gen_task_def])
                /\ main' = [pc |-> "flush"]
                /\ flush' = [flush EXCEPT !.pc = "send", !.k = 0]
             \/ /\ main' = [pc |-> "panicked"]
                /\ UNCHANGED <<output, flush>>
       \/ /\ JoinPanics(Handles, worker)
          /\ main' = [pc |-> "panicked"]
          /\ UNCHANGED <<output, flush>>
    /\ UNCHANGED <<bv, worker, producer, calls, actor_vars, generated_config,
                   seen_tasks, generated_build_variants, task_definitions, found_tasks,
                   channel, index, worker_alive, files, requests, other_vars>>

(***************************************************************************)
(* Both binaries: the end of main.                                         *)
(***************************************************************************)
\* main returning without awaiting the flush
MainExit_BeforeFlush ==
    /\ main.pc = "flush"
    /\ main' = [pc |-> IF flush.pc = "panicked" THEN "panicked" ELSE "exit0"]
    /\ UNCHANGED <<bv, worker, producer, calls, actor_vars, agg_vars, writer_vars,
                   other_vars>>

\* flush returned: main returns, the process exits with status 0; flush
\* panicked: so does main
MainExit ==
    /\ main.pc = "flush"
    /\ flush.pc \in {"returned", "panicked"}
    /\ main' = [pc |-> IF flush.pc = "returned" THEN "exit0" ELSE "panicked"]
    /\ UNCHANGED <<bv, worker, producer, calls, actor_vars, agg_vars, writer_vars,
                   other_vars>>

pool_others == <<split_vars, rw_vars, orch_vars, call_vars, lock_vars>>

Next ==
    \/ MainSpawnVariants
    \/ \E v \in Variants : VariantSpawnWorkers(v)
    \/ \E v \in Variants, t \in Splittable : WorkerGetTask(v, t)
    \/ ActorGetTask
    \/ ActorAddTask
    \/ \E t \in Splittable : ProducerHistory(t)
    \/ \E t \in Splittable : ProducerSplit(t)
    \/ \E t \in Splittable : ProducerWrite(t)
    \/ \E t \in Splittable : ProducerAddTask(t)
    \/ \E v \in Variants, t \in Splittable : WorkerCritical(v, t)
    \/ \E v \in Variants, t \in GenTaskNames : WorkerFuzzer(v, t)
    \/ \E v \in Variants : VariantAggregate(v)
    \/ MainJoinVariants
    \/ BvMainSpawnWorkers
    \/ \E t \in Splittable : BvWorkerHistory(t)
    \/ \E t \in Splittable : BvWorkerSplit(t)
    \/ \E t \in Splittable : BvWorkerWrite(t)
    \/ \E t \in Splittable : BvWorkerCritical(t)
    \/ \E t \in GenTaskNames : BvWorkerFuzzer(t)
    \/ BvMainJoin
    \/ MainExit
    \/ (FlushSend /\ UNCHANGED pool_others)
    \/ (FlushRecv /\ UNCHANGED pool_others)
    \/ (WorkerStep /\ UNCHANGED pool_others)

Spec == Init /\ [][Next]_vars

(***************************************************************************)
(* Properties of the orchestrators (Spec).                                 *)
(***************************************************************************)
\* the variants whose task list names generator task t
Listing(t) == {v \in Variants : t \in Range(GenTasksOf(v))}

\* the names of a sequence of records with a name field
NamesOf(s) == [k \in DOMAIN s |-> s[k].name]

\* the names of the sub-suites of the suite generated for task t
SubSuiteNames(t) == Range(NamesOf(generated_tasks[t].sub_suites))

\* how many elements of the sequence s equal x
Occurrences(s, x) == Cardinality({k \in DOMAIN s : s[k] = x})

\* the output build variant named v
OutputVariant(v) ==
    CHOOSE b \in Range(output.v.buildvariants) : b.name = v

\* C3: in version-scoped mode get_task_history and split_task run at most
\* once per generator task whatever the interleaving of the GetTask
\* requests, and a variant that has received its reply received the one
\* suite the actor stores for the task, computed by exactly one history
\* fetch and one split.
C3_MemoComputesOnce ==
    mode = "version" =>
        \A t \in Splittable :
            /\ calls[t].history <= 1
            /\ calls[t].split <= 1
            /\ \A v \in Variants :
                   worker[<<v, t>>].val.some =>
                       /\ calls[t] = [history |-> 1, split |-> 1]
                       /\ t \in DOMAIN generated_tasks
                       /\ worker[<<v, t>>].val.v = generated_tasks[t]

\* both variants requested t_gen before it was generated and both hold the
\* same suite of two sub-suites
C3_Witness ==
    /\ mode = "version"
    /\ \A v \in Variants :
          /\ worker[<<v, "t_gen">>].val.some
          /\ Len(worker[<<v, "t_gen">>].val.v.sub_suites) = 2
    /\ calls["t_gen"] = [history |-> 1, split |-> 1]
    /\ "t_gen" \in DOMAIN waiting_tasks

\* C4: in version-scoped mode the output holds the sub-task definitions of a
\* splittable task once however many variants list it (a name occurs in
\* tasks[] once for each listed task whose suite has a sub-suite of that
\* name), and the task list of every variant listing the task refers to
\* each of its sub-tasks.
C4_DefinitionsOnce ==
    (mode = "version" /\ output.some) =>
        \A t \in Splittable : Listing(t) # {} =>
            \A n \in SubSuiteNames(t) :
                /\ Occurrences(NamesOf(output.v.tasks), n)
                       = Cardinality({u \in Splittable :
                                         Listing(u) # {} /\ n \in SubSuiteNames(u)})
                /\ \A v \in Listing(t) :
                       \E k \in DOMAIN OutputVariant(v).tasks :
                           OutputVariant(v).tasks[k].name = n

\* the output of a run in which both variants list t_gen, split in two
C4_Witness ==
    /\ mode = "version"
    /\ output.some
    /\ Listing("t_gen") = Variants
    /\ Len(generated_tasks["t_gen"].sub_suites) = 2
    /\ Occurrences(NamesOf(output.v.tasks),
                   generated_tasks["t_gen"].sub_suites[1].name) = 1

\* some task of the run has failed fatally
FatalError ==
    \/ \E t \in DOMAIN producer : producer[t].pc = "panicked"
    \/ \E k \in DOMAIN worker : worker[k].pc = "panicked"
    \/ \E v \in DOMAIN bv : bv[v].pc = "panicked"
    \/ \E w \in DOMAIN worker_alive : ~worker_alive[w]
    \/ main.pc \in {"exit1", "panicked"}

\* C6: once a task of the run has failed fatally, the process does not exit
\* with status 0, and it either has ended with a non-zero status or can
\* still take a step: it is never left waiting for ever.
C6_FatalErrorExits ==
    FatalError =>
        /\ main.pc # "exit0"
        /\ main.pc \in {"exit1", "panicked"} \/ ENABLED Next

\* C7: every task reference of every build variant of the written output
\* names a task definition of its tasks[], in both binaries.
C7_RefsNameDefinitions ==
    output.some =>
        \A b \in Range(output.v.buildvariants) :
            \A ref \in Range(b.tasks) :
                \E td \in Range(output.v.tasks) : td.name = ref.name

\* the gen_version output of two variants that share t_gen, whose
\* definitions were added by one of them only
C7_Witness ==
    /\ mode = "version"
    /\ output.some
    /\ Len(output.v.buildvariants) = 2
    /\ \A b \in Range(output.v.buildvariants) :
          \E ref \in Range(b.tasks) :
              ref.name = generated_tasks["t_gen"].sub_suites[1].name
    /\ \E v \in Variants : generated_config[v].gen_task_def = <<>>

\* C8: the sub-suite names of every generated suite are pairwise distinct,
\* and so are the names of the task definitions of the written output.
C8_NamesDistinct ==
    /\ \A t \in DOMAIN generated_tasks : NoDup(NamesOf(generated_tasks[t].sub_suites))
    /\ \A k \in DOMAIN worker :
           worker[k].pc \in {"write", "critical", "done"} /\ worker[k].val.some =>
               NoDup(NamesOf(worker[k].val.v.sub_suites))
    /\ output.some => NoDup(NamesOf(output.v.tasks))

(***************************************************************************)
(* FuzzerSpec: one call of generate_fuzzer_task on parameters drawn from   *)
(* the bounds.                                                             *)
(***************************************************************************)
\* the suite config with the given executor node (Absent: no executor key)
ConfigWithExecutor(executor) ==
    YHash(MapOf({"test_kind", "executor"},
                [test_kind |-> YString("js_test"), executor |-> executor]))

FixtureOfClass(class) == YHash([fixture |-> YHash([class |-> YString(class)])])

\* the suite configs of a fuzzer task: the four fixture types and the
\* documents get_fixture_type does not classify
FuzzerConfigs ==
    {ConfigWithExecutor(YHash([config |-> YHash(<<>>)])),
     ConfigWithExecutor(FixtureOfClass("ShardedClusterFixture")),
     ConfigWithExecutor(FixtureOfClass("ReplicaSetFixture")),
     ConfigWithExecutor(FixtureOfClass("MasterSlaveFixture")),
     ConfigWithExecutor(Absent),
     ConfigWithExecutor(YNull),
     YString("js_test")}

VersionNames == {"last_lts", "last_continuous"}

FuzzerInit ==
    /\ \E n \in 0..MaxNumTasks, m \in {None, Some(FALSE), Some(TRUE)},
          c \in FuzzerConfigs, lv \in SeqsNoDup(VersionNames, MaxLastVersions) :
          call_in = [fn |-> "generate_fuzzer_task",
                     params |-> [task_name |-> "t", variant |-> "vA", suite |-> "s",
                                 num_tasks |-> n,
                                 require_multiversion_setup |-> m,
                                 suite_config |-> c],
                     last_versions |-> lv]
    /\ call_out = [pc |-> "start"]
    /\ SplitIdle
    /\ RewriteIdle
    /\ WriterIdle
    /\ OrchIdle
    /\ LockIdle

GenerateFuzzerTask ==
    /\ call_in.fn = "generate_fuzzer_task"
    /\ call_out.pc = "start"
    /\ call_out' = [pc |-> "done",
                    ret |-> generate_fuzzer_task(call_in.params, call_in.last_versions)]
    /\ UNCHANGED <<call_in, lock_vars, split_vars, rw_vars, writer_vars, orch_vars>>

FuzzerNext == GenerateFuzzerTask

FuzzerSpec == FuzzerInit /\ [][FuzzerNext]_vars

(***************************************************************************)
(* Properties of the fuzzer generator (FuzzerSpec).                        *)
(***************************************************************************)
FuzzerDone == call_in.fn = "generate_fuzzer_task" /\ call_out.pc = "done"

\* the call ran in multiversion mode
Multiversion ==
    call_in.params.require_multiversion_setup.some
    /\ call_in.params.require_multiversion_setup.v

\* how many version combinations the text gives each fixture type
CombinationCount(fixture_type) ==
    IF fixture_type = "Repl" THEN 3 ELSE 1

\* C11: generate_fuzzer_task returns num_tasks sub-tasks when multiversion
\* setup is not required, and num_tasks * |last_versions| * (number of
\* version combinations of the suite's fixture type: Repl 3, Shard, Shell
\* and Other 1) when it is and the suite has a fixture type.
C11_FuzzerSubTaskCount ==
    FuzzerDone =>
        /\ ~Multiversion =>
               /\ call_out.ret # Panic
               /\ Len(call_out.ret.sub_tasks) = call_in.params.num_tasks
        /\ (Multiversion /\ get_fixture_type(call_in.params.suite_config).tag = "Ok") =>
               /\ call_out.ret # Panic
               /\ Len(call_out.ret.sub_tasks) =
                      call_in.params.num_tasks * Len(call_in.last_versions)
                          * CombinationCount(
                                get_fixture_type(call_in.params.suite_config).v)

\* a multiversion call on a replica-set suite with two versions and two
\* tasks: twelve sub-tasks
C11_Witness ==
    /\ FuzzerDone
    /\ Multiversion
    /\ call_in.params.suite_config = ConfigWithExecutor(FixtureOfClass("ReplicaSetFixture"))
    /\ Len(call_in.last_versions) = 2
    /\ call_in.params.num_tasks = 2
    /\ Len(call_out.ret.sub_tasks) = 12


\* C12: every task reference of every build variant of the written output
\* has activate = Some(false), for sub-suites and for fuzzer sub-tasks alike.
C12_RefsNotActivated ==
    output.some =>
        \A b \in Range(output.v.buildvariants) :
            \A ref \in Range(b.tasks) : ref.activate = Some(FALSE)

\* a written output one of whose build variants references a sub-suite of a
\* split task and a sub-task of a fuzzer task
C12_Witness ==
    /\ output.some
    /\ \E b \in Range(output.v.buildvariants) :
          /\ \E ref \in Range(b.tasks), t \in DOMAIN generated_tasks :
                ref.name \in Range(NamesOf(generated_tasks[t].sub_suites))
          /\ \E ref \in Range(b.tasks) :
                ref.name \in Range(NamesOf(
                    generate_fuzzer_task(
                        task_def_to_fuzzer_params(task_def_map("f_gen"), b.name),
                        LastVersions).sub_tasks))


(***************************************************************************)
(* Further properties of split_task (SplitSpec).                           *)
(***************************************************************************)
\* the loop of split_task is about to look at a test
AtTest == split.pc = "loop" /\ split.pos <= Len(split.test_list)

\* the test the loop is about to look at has history, and adding its runtime
\* to the running runtime goes strictly above total_runtime / max_tasks
Straddles ==
    LET test_name == get_test_name(split.test_list[split.pos])
        test_map == split_in.task_stats.test_map
    IN  /\ test_name \in DOMAIN test_map
        /\ split.max_tasks > 0
        /\ (split.running_runtime + test_map[test_name]) * split.max_tasks
               > split.total_runtime

\* C13: an iteration of split_task on a test with history that would push the
\* running runtime strictly above the target, with a non-empty running
\* sub-suite and fewer than max_tasks - 1 closed sub-suites, closes the
\* running sub-suite before the test: the sub-suite it closes ends with the
\* previous test and the next running sub-suite starts with this test.
C13_CloseBeforeStraddler ==
    [][(/\ AtTest
        /\ Straddles
        /\ split.running_tests # <<>>
        /\ Len(split.sub_suites) < split.max_tasks - 1)
       => /\ Len(split'.sub_suites) = Len(split.sub_suites) + 1
          /\ split'.sub_suites[Len(split'.sub_suites)].test_list = split.running_tests
          /\ split.running_tests[Len(split.running_tests)]
                 = split.test_list[split.pos - 1]
          /\ split'.running_tests = <<split.test_list[split.pos]>>
          /\ split'.running_runtime
                 = split_in.task_stats.test_map[
                       get_test_name(split.test_list[split.pos])]]_vars

\* the loop has just closed a sub-suite of two tests before a test with
\* history, which is alone in the running sub-suite
C13_Witness ==
    /\ split.pc = "loop"
    /\ split.pos = 4
    /\ Len(split.sub_suites) = 1
    /\ split.sub_suites[1].test_list = SubSeq(split.test_list, 1, 2)
    /\ split.running_tests = <<split.test_list[3]>>
    /\ get_test_name(split.test_list[3]) \in DOMAIN split_in.task_stats.test_map
    /\ split.running_runtime > 0

\* the tests split_task splits: the discovered ones that exist
SplitTests == FilterExisting(split_in.discovered, split_in.existing)

SplitKnown(test) == get_test_name(test) \in DOMAIN split_in.task_stats.test_map

SplitRuntime(test) == split_in.task_stats.test_map[get_test_name(test)]

TestLists == [k \in DOMAIN split.sub_suites |-> split.sub_suites[k].test_list]

\* C14 (as claimed): with n_suites = 2 and at least two tests of which only
\* the first has history, with a runtime above the target, split_task returns
\* two sub-suites: the first test alone, then all the tests that follow.
C14_UnknownTestsSplitOff ==
    (/\ SplitDone
     /\ split_in.n_suites = 2
     /\ Len(SplitTests) >= 2
     /\ SplitKnown(SplitTests[1])
     /\ \A k \in 2..Len(SplitTests) : ~SplitKnown(SplitTests[k])
     /\ SplitRuntime(SplitTests[1]) * 2 > split.total_runtime)
    => TestLists = <<SubSeq(SplitTests, 1, 1), SubSeq(SplitTests, 2, Len(SplitTests))>>

\* C15 (as claimed): when the m*k tests all have history with one runtime and
\* n_suites = k, split_task returns k sub-suites, the j-th of which holds
\* the j-th run of m consecutive tests.
C15_EqualRuntimesSplitEvenly ==
    \A m \in 1..MaxTests, k \in 1..MaxNSuites :
        (/\ SplitDone
         /\ split_in.n_suites = k
         /\ Len(SplitTests) = m * k
         /\ \A j \in DOMAIN SplitTests :
                /\ SplitKnown(SplitTests[j])
                /\ SplitRuntime(SplitTests[j]) = SplitRuntime(SplitTests[1]))
        => TestLists = [j \in 1..k |-> SubSeq(SplitTests, (j - 1) * m + 1, j * m)]


\* the text before the last "_" of s
BeforeLastUnderscore(s) ==
    LET at == {k \in 1..Len(s) : SubSeq(s, k, k) = "_"}
        last == CHOOSE k \in at : \A j \in at : j <= k
    IN  SubSeq(s, 1, last - 1)

\* the base task name of a sub-task: its name without "_{index}_{variant}"
BaseNameOf(sub_task) == BeforeLastUnderscore(BeforeLastUnderscore(sub_task.name))

BaseNames == {BaseNameOf(call_out.ret.sub_tasks[k]) : k \in DOMAIN call_out.ret.sub_tasks}

SubTasksOfBase(base) ==
    {k \in DOMAIN call_out.ret.sub_tasks : BaseNameOf(call_out.ret.sub_tasks[k]) = base}

\* what follows the task name in a base task name, and the suite name in a
\* base suite name, for last_versions = [last_lts]
BaseSuffixes(fixture_type) ==
    CASE fixture_type = "Repl" -> {"_last_lts_new_new_old", "_last_lts_new_old_new",
                                    "_last_lts_old_new_new"}
      [] fixture_type = "Shard" -> {"_last_lts_new_old_old_new"}
      [] OTHER -> {"_last_lts"}

\* every sub-task's suite var is the base suite name of the pair its base
\* task name was built from
SuiteVarsMatch(fixture_type) ==
    \A k \in DOMAIN call_out.ret.sub_tasks :
        \E x \in BaseSuffixes(fixture_type) :
            /\ BaseNameOf(call_out.ret.sub_tasks[k]) = call_in.params.task_name \o x
            /\ call_out.ret.sub_tasks[k].run_tests_vars.suite = call_in.params.suite \o x

\* a multiversion call with last_versions = [last_lts] and num_tasks = 2 on a
\* suite with a fixture type
LastLtsTwoTasks ==
    /\ FuzzerDone
    /\ Multiversion
    /\ call_in.last_versions = <<"last_lts">>
    /\ call_in.params.num_tasks = 2
    /\ get_fixture_type(call_in.params.suite_config).tag = "Ok"

\* C16 (as claimed): for a multiversion fuzzer task with last_versions =
\* [last_lts], a replica-set fixture and num_tasks = 2, the sub-tasks have 6
\* base task names, 2 sub-tasks each, and every suite var is the base suite
\* name of the same (version, combination) pair.
C16_SixBaseNames ==
    (LastLtsTwoTasks /\ get_fixture_type(call_in.params.suite_config).v = "Repl") =>
        /\ Cardinality(BaseNames) = 6
        /\ \A base \in BaseNames : Cardinality(SubTasksOfBase(base)) = 2
        /\ SuiteVarsMatch("Repl")

\* C16 (amended): for a multiversion fuzzer task with last_versions =
\* [last_lts] and num_tasks = 2, the sub-tasks have one base task name
\* t_last_lts_{combination} per version combination of the fixture type (3
\* for a replica set, in all 6 sub-tasks; t_last_lts when the combination is
\* empty), 2 sub-tasks each, and every suite var is the base suite name of
\* the same (version, combination) pair.
C16_BaseNamePerCombination ==
    LastLtsTwoTasks =>
        LET fixture_type == get_fixture_type(call_in.params.suite_config).v
        IN  /\ call_out.ret # Panic
            /\ BaseNames = {call_in.params.task_name \o x : x \in BaseSuffixes(fixture_type)}
            /\ fixture_type = "Repl" =>
                   Cardinality(BaseNames) = 3 /\ Len(call_out.ret.sub_tasks) = 6
            /\ \A base \in BaseNames : Cardinality(SubTasksOfBase(base)) = 2
            /\ SuiteVarsMatch(fixture_type)

\* the replica-set call of the scenario: six sub-tasks, the first of the
\* first combination
C16_Witness ==
    /\ LastLtsTwoTasks
    /\ get_fixture_type(call_in.params.suite_config).v = "Repl"
    /\ Len(call_out.ret.sub_tasks) = 6
    /\ call_out.ret.sub_tasks[1].name = "t_last_lts_new_new_old_0_vA"
    /\ call_out.ret.sub_tasks[1].run_tests_vars.suite = "s_last_lts_new_new_old"


\* C17 (as claimed): a written output with a build variant whose task list
\* holds a generator task has a build variant with a display task named
\* "generator_tasks" whose execution tasks are the generator tasks seen in
\* the task list of that variant.
C17_GeneratorTasksDisplayed ==
    (/\ output.some
     /\ \E b \in Range(output.v.buildvariants) : GenTasksOf(b.name) # <<>>) =>
        \E b \in Range(output.v.buildvariants) :
            /\ b.display_tasks.some
            /\ \E dt \in Range(b.display_tasks.v) :
                  /\ dt.name = "generator_tasks"
                  /\ Range(dt.execution_tasks) = Range(GenTasksOf(b.name))


(***************************************************************************)
(* gen_version.rs / gen_build_variant.rs: translate_run_var.               *)
(*                                                                         *)
(* EXPANSION_RE is "${", an id of one or more of [a-zA-Z0-9_], optionally *)
(* "|" and a greedy default of any characters, then "}".  Regex::captures  *)
(* returns the leftmost match anywhere in the string.                      *)
(***************************************************************************)
CharAt(s, k) == SubSeq(s, k, k)

\* the characters of the run-var strings: "n" stands for [a-zA-Z0-9_], "-"
\* for any other character
IdChars == {"n"}
VarChars == {"$", "{", "}", "|", "n", "-"}

NoMatch == [matched |-> FALSE]

\* the match of EXPANSION_RE that starts at position i of s, if there is one
MatchAt(s, i) ==
    IF i + 1 <= Len(s) /\ CharAt(s, i) = "$" /\ CharAt(s, i + 1) = "{"
    THEN LET id_ends == {j \in (i + 2)..Len(s) :
                            \A k \in (i + 2)..j : CharAt(s, k) \in IdChars}
             id_end == IF id_ends = {} THEN i + 1
                       ELSE CHOOSE j \in id_ends : \A k \in id_ends : k <= j
             closes == {k \in (id_end + 2)..Len(s) : CharAt(s, k) = "}"}
             last_close == CHOOSE k \in closes : \A j \in closes : j <= k
         IN  IF id_end < i + 2 \/ id_end + 1 > Len(s) THEN NoMatch
             ELSE IF CharAt(s, id_end + 1) = "|" /\ closes # {}
             THEN [matched |-> TRUE, id |-> SubSeq(s, i + 2, id_end),
                   default |-> Some(SubSeq(s, id_end + 2, last_close - 1))]
             ELSE IF CharAt(s, id_end + 1) = "}"
             THEN [matched |-> TRUE, id |-> SubSeq(s, i + 2, id_end),
                   default |-> None]
             ELSE NoMatch
    ELSE NoMatch

\* EXPANSION_RE.captures(run_var): the leftmost match
captures(run_var) ==
    LET starts == {i \in 1..Len(run_var) : MatchAt(run_var, i).matched}
    IN  IF starts = {} THEN NoMatch
        ELSE MatchAt(run_var, CHOOSE i \in starts : \A j \in starts : i <= j)

\* translate_run_var: Some(text), None, or Panic when expansions.unwrap()
\* meets a build variant without an expansions map
translate_run_var(run_var, build_variant) ==
    LET expansion == captures(run_var)
    IN  IF expansion.matched
        THEN IF ~build_variant.expansions.some THEN Panic
             ELSE IF expansion.id \in DOMAIN build_variant.expansions.v
             THEN Some(build_variant.expansions.v[expansion.id])
             ELSE expansion.default
        ELSE Some(run_var)

(***************************************************************************)
(* TranslateSpec: one call of translate_run_var.                           *)
(***************************************************************************)
RECURSIVE StringsUpTo(_)
StringsUpTo(n) ==
    IF n = 0 THEN {""}
    ELSE LET shorter == StringsUpTo(n - 1)
         IN  shorter \cup {s \o c : s \in shorter, c \in VarChars}

\* the expansions of a build variant: none, an empty map, a map with the
\* one-letter id, a map with another id
ExpansionMaps ==
    {None, Some(<<>>), Some([n |-> "7"]), Some([nn |-> "8"])}

TranslateInit ==
    /\ \E s \in StringsUpTo(MaxVarLen), e \in ExpansionMaps :
          call_in = [fn |-> "translate_run_var", run_var |-> s,
                     build_variant |-> [name |-> "vA", expansions |-> e]]
    /\ call_out = [pc |-> "start"]
    /\ SplitIdle
    /\ RewriteIdle
    /\ WriterIdle
    /\ OrchIdle
    /\ LockIdle

TranslateRunVar ==
    /\ call_in.fn = "translate_run_var"
    /\ call_out.pc = "start"
    /\ call_out' = [pc |-> "done",
                    ret |-> translate_run_var(call_in.run_var, call_in.build_variant)]
    /\ UNCHANGED <<call_in, lock_vars, split_vars, rw_vars, writer_vars, orch_vars>>

TranslateNext == TranslateRunVar

TranslateSpec == TranslateInit /\ [][TranslateNext]_vars

(***************************************************************************)
(* Properties of translate_run_var (TranslateSpec).                        *)
(***************************************************************************)
TranslateDone == call_in.fn = "translate_run_var" /\ call_out.pc = "done"

\* the id of a string that starts with "${": its longest run of id characters
FormIdEnd(s) ==
    LET ends == {j \in 3..Len(s) : \A k \in 3..j : CharAt(s, k) \in IdChars}
    IN  IF ends = {} THEN 2 ELSE CHOOSE j \in ends : \A k \in ends : k <= j

\* s has the form ${id}
IsPlainExpansion(s) ==
    /\ Len(s) >= 4
    /\ SubSeq(s, 1, 2) = "${"
    /\ FormIdEnd(s) = Len(s) - 1
    /\ CharAt(s, Len(s)) = "}"

\* s has the form ${id|default}
IsDefaultExpansion(s) ==
    /\ Len(s) >= 5
    /\ SubSeq(s, 1, 2) = "${"
    /\ FormIdEnd(s) >= 3
    /\ FormIdEnd(s) + 1 < Len(s)
    /\ CharAt(s, FormIdEnd(s) + 1) = "|"
    /\ CharAt(s, Len(s)) = "}"

FormId(s) == SubSeq(s, 3, FormIdEnd(s))
FormDefault(s) == SubSeq(s, FormIdEnd(s) + 2, Len(s) - 1)

\* the id of s is a key of the expansions of the build variant
IdExpanded(s) ==
    /\ call_in.build_variant.expansions.some
    /\ FormId(s) \in DOMAIN call_in.build_variant.expansions.v

\* C18 (as claimed): for every run-var string and every build variant, with
\* or without an expansions map, translate_run_var yields the expansion's
\* value when the string is ${id} or ${id|default} and id is in the
\* expansions; otherwise the default when there is one; otherwise it fails
\* (None, on which the caller aborts); and it returns a string that is not
\* an expansion unchanged.
C18_TranslateRunVar ==
    TranslateDone =>
        LET s == call_in.run_var
        IN  IF IsPlainExpansion(s) \/ IsDefaultExpansion(s)
            THEN IF IdExpanded(s)
                 THEN call_out.ret = Some(call_in.build_variant.expansions.v[FormId(s)])
                 ELSE IF IsDefaultExpansion(s)
                 THEN call_out.ret = Some(FormDefault(s))
                 ELSE call_out.ret \in {None, Panic}
            ELSE call_out.ret = Some(s)


(***************************************************************************)
(* FixtureSpec: one call of get_fixture_type on a suite document.          *)
(***************************************************************************)
\* the fixture nodes of an executor (Absent: no fixture key)
FixtureChoices ==
    {Absent, YNull, YString("ReplicaSetFixture"), YArray(<<>>), YHash(<<>>),
     YHash([class |-> YNull]), YHash([class |-> YBoolean(TRUE)])}
    \cup {YHash(MapOf({"class", "num_nodes"},
                      [class |-> YString(c), num_nodes |-> n])) :
              c \in {"ShardedClusterFixture", "ReplicaSetFixture",
                     "MasterSlaveFixture", ""},
              n \in {Absent, YString("3")}}

\* the executor nodes of a suite document (Absent: no executor key)
FixtureExecutorChoices ==
    {Absent, YNull, YString("x"), YArray(<<>>)}
    \cup {YHash(MapOf({"config", "fixture"}, [config |-> c, fixture |-> f])) :
              c \in {Absent, YHash(<<>>)}, f \in FixtureChoices}

\* the documents a suite file may hold
FixtureDocuments ==
    {YNull, YString("x"), YArray(<<>>)}
    \cup {YHash(MapOf({"test_kind", "selector", "executor"},
                      [test_kind |-> t, selector |-> s, executor |-> e])) :
              t \in {Absent, YString("js_test")},
              s \in {Absent, YHash(<<>>)},
              e \in FixtureExecutorChoices}

FixtureInit ==
    /\ \E c \in FixtureDocuments :
          call_in = [fn |-> "get_fixture_type", config |-> c]
    /\ call_out = [pc |-> "start"]
    /\ SplitIdle
    /\ RewriteIdle
    /\ WriterIdle
    /\ OrchIdle
    /\ LockIdle

GetFixtureType ==
    /\ call_in.fn = "get_fixture_type"
    /\ call_out.pc = "start"
    /\ call_out' = [pc |-> "done", ret |-> get_fixture_type(call_in.config)]
    /\ UNCHANGED <<call_in, lock_vars, split_vars, rw_vars, writer_vars, orch_vars>>

FixtureNext == GetFixtureType

FixtureSpec == FixtureInit /\ [][FixtureNext]_vars

(***************************************************************************)
(* Properties of get_fixture_type (FixtureSpec).                           *)
(***************************************************************************)
FixtureDone == call_in.fn = "get_fixture_type" /\ call_out.pc = "done"

IsMapping(node) == node.tag = "Hash"

HasKey(node, key) == IsMapping(node) /\ key \in DOMAIN node.map

\* the document has a mapping at its root and a mapping under `executor`
ExecutorIsMapping ==
    /\ HasKey(call_in.config, "executor")
    /\ IsMapping(call_in.config.map["executor"])

\* executor.fixture.class is the string `class`
FixtureClassIs(class) ==
    LET executor == call_in.config.map["executor"]
    IN  /\ HasKey(executor, "fixture")
        /\ HasKey(executor.map["fixture"], "class")
        /\ executor.map["fixture"].map["class"] = YString(class)

\* C19: on a document whose executor is a mapping, get_fixture_type gives
\* Shell when the executor has no `fixture` key, Shard when
\* executor.fixture.class is ShardedClusterFixture, Repl when it is
\* ReplicaSetFixture, and Other for every other fixture, one without a class
\* included.
C19_FixtureClassification ==
    (FixtureDone /\ ExecutorIsMapping) =>
        call_out.ret =
            Ok(IF ~HasKey(call_in.config.map["executor"], "fixture") THEN "Shell"
               ELSE IF FixtureClassIs("ShardedClusterFixture") THEN "Shard"
               ELSE IF FixtureClassIs("ReplicaSetFixture") THEN "Repl"
               ELSE "Other")

\* a replica-set suite classified as Repl
C19_Witness ==
    /\ FixtureDone
    /\ ExecutorIsMapping
    /\ FixtureClassIs("ReplicaSetFixture")
    /\ call_out.ret = Ok("Repl")

\* C20 (as claimed): get_fixture_type returns an error value, and neither
\* panics nor returns a fixture type, when the root is not a mapping, when
\* the root mapping has no `executor` key, and when `executor` is not a
\* mapping.
C20_InvalidConfigIsError ==
    (FixtureDone /\ ~ExecutorIsMapping) => call_out.ret.tag = "Err"


(***************************************************************************)
(* NameSpec: calls of name_generated_task and name_sub_suite on one set of *)
(* arguments.                                                              *)
(***************************************************************************)
\* the totals around the powers of ten, where the width changes
TotalChoices == {0, 1, 2, 9, 10, 11, 99, 100, 101, 1000, 1001}
IndexChoices == {0, 3, 9, 10, 42, 100}

NameInit ==
    /\ \E p \in {"t", "task"}, i \in {None} \cup {Some(n) : n \in IndexChoices},
          n \in {None} \cup {Some(k) : k \in TotalChoices},
          v \in {None, Some("vA")} :
          call_in = [fn |-> "name", parent_name |-> p, task_index |-> i,
                     total_tasks |-> n, variant |-> v]
    /\ call_out = [pc |-> "start", generated |-> None, sub_suite |-> None]
    /\ SplitIdle
    /\ RewriteIdle
    /\ WriterIdle
    /\ OrchIdle
    /\ LockIdle

NameGeneratedTask ==
    /\ call_in.fn = "name"
    /\ ~call_out.generated.some
    /\ call_out' = [call_out EXCEPT
                      !.generated = Some(name_generated_task(
                                             call_in.parent_name, call_in.task_index,
                                             call_in.total_tasks, call_in.variant))]
    /\ UNCHANGED <<call_in, lock_vars, split_vars, rw_vars, writer_vars, orch_vars>>

\* name_sub_suite takes its index and total as u64
NameSubSuite ==
    /\ call_in.fn = "name"
    /\ ~call_out.sub_suite.some
    /\ call_in.task_index.some
    /\ call_in.total_tasks.some
    /\ call_out' = [call_out EXCEPT
                      !.sub_suite = Some(name_sub_suite(
                                             call_in.parent_name, call_in.task_index.v,
                                             call_in.total_tasks.v, call_in.variant))]
    /\ UNCHANGED <<call_in, lock_vars, split_vars, rw_vars, writer_vars, orch_vars>>

NameNext == NameGeneratedTask \/ NameSubSuite

NameSpec == NameInit /\ [][NameNext]_vars

(***************************************************************************)
(* Properties of the naming functions (NameSpec).                          *)
(***************************************************************************)
\* ceil(log10(total)): the least w with 10^w >= total
WidthOf(total) == CHOOSE w \in 0..4 : 10^w >= total /\ (w = 0 \/ 10^(w - 1) < total)

\* the index in decimal, with zeros in front up to the width
PaddedIndex(task_index, total) ==
    LET digits == ToString(task_index)
        missing == IF WidthOf(total) > Len(digits) THEN WidthOf(total) - Len(digits)
                   ELSE 0
    IN  SubSeq("0000", 1, missing) \o digits

VariantSuffix == IF call_in.variant.some THEN "_" \o call_in.variant.v ELSE ""

\* C21: name_generated_task returns "{parent}_misc" plus the optional
\* "_{variant}" when the index is absent, and with an index and a total
\* "{parent}_{index}" with the index zero-padded to width ceil(log10(total)),
\* at least one digit, plus the optional "_{variant}"; name_sub_suite returns
\* the same indexed name.
C21_GeneratedTaskNames ==
    /\ (call_in.fn = "name" /\ call_out.generated.some /\ ~call_in.task_index.some) =>
           call_out.generated.v = call_in.parent_name \o "_misc" \o VariantSuffix
    /\ (call_in.fn = "name" /\ call_out.generated.some /\ call_in.task_index.some
            /\ call_in.total_tasks.some) =>
           /\ call_out.generated.v =
                  call_in.parent_name \o "_"
                      \o PaddedIndex(call_in.task_index.v, call_in.total_tasks.v)
                      \o VariantSuffix
           /\ Len(PaddedIndex(call_in.task_index.v, call_in.total_tasks.v)) >= 1
    /\ (call_in.fn = "name" /\ call_out.generated.some /\ call_out.sub_suite.some) =>
           call_out.sub_suite.v = call_out.generated.v

\* index 42 of 1001 tasks on a variant: four digits, from both functions
C21_Witness ==
    /\ call_in.fn = "name"
    /\ call_in.parent_name = "task"
    /\ call_in.task_index = Some(42)
    /\ call_in.total_tasks = Some(1001)
    /\ call_out.generated = Some("task_0042_vA")
    /\ call_out.sub_suite = Some("task_0042_vA")


\* the display tasks of output build variant b that stand for a splittable
\* task of its task list
SplitDisplayTasks(b) ==
    {dt \in Range(b.display_tasks.v) :
        \E t \in Range(GenTasksOf(b.name)) :
            t \in Splittable /\ dt.name = remove_gen_suffix_ref(t)}

\* C22 (as claimed): in the written output of either binary, the execution
\* tasks of the display task of a splittable task T in build variant V are
\* named T_0_V, T_1_V, ... in order, and the task references of V that
\* belong to T carry the same names.
C22_SubTaskNamesCarryVariant ==
    output.some =>
        \A b \in Range(output.v.buildvariants) :
            \A dt \in SplitDisplayTasks(b) :
                /\ \A k \in DOMAIN dt.execution_tasks :
                       dt.execution_tasks[k] =
                           dt.name \o "_" \o ToString(k - 1) \o "_" \o b.name
                /\ \A k \in DOMAIN dt.execution_tasks :
                       \E ref \in Range(b.tasks) : ref.name = dt.execution_tasks[k]


\* the variant whose name the sub-suites of splittable task t carry in output
\* build variant b: b itself in gen_build_variant, the variant whose request
\* made the memo actor start the split of t in gen_version
NamingVariant(t, b) ==
    IF mode = "variant" THEN b.name ELSE producer[t].bv_name

\* C22 (amended): in the written output of either binary, the execution
\* tasks of the display task of a splittable task T in build variant V are
\* named T_0_W, T_1_W, ... in order, and V has a task reference of each
\* name, where W is V in per-variant mode and, in version-scoped mode, the
\* one variant whose request started the split of T, for every variant that
\* references T.
C22_SubTaskNamesCarrySplitVariant ==
    output.some =>
        \A b \in Range(output.v.buildvariants) :
            \A dt \in SplitDisplayTasks(b) :
                \E t \in Range(GenTasksOf(b.name)) \cap Splittable :
                    /\ dt.name = remove_gen_suffix_ref(t)
                    /\ \A k \in DOMAIN dt.execution_tasks :
                           /\ dt.execution_tasks[k] =
                                  dt.name \o "_" \o ToString(k - 1) \o "_"
                                      \o NamingVariant(t, b)
                           /\ \E ref \in Range(b.tasks) :
                                  ref.name = dt.execution_tasks[k]

\* a gen_version output in which build variant vB carries the sub-task t_0_vA
\* that was split for vA, and vA carries it too
C22_Witness ==
    /\ mode = "version"
    /\ output.some
    /\ \E a, b \in Range(output.v.buildvariants) :
          /\ a.name = "vA"
          /\ b.name = "vB"
          /\ \E dt \in SplitDisplayTasks(b) : "t_0_vA" \in Range(dt.execution_tasks)
          /\ \E dt \in SplitDisplayTasks(a) : "t_0_vA" \in Range(dt.execution_tasks)


(***************************************************************************)
(* LiveSpec: the runs of Spec in which the tokio runtime keeps running     *)
(* whatever can run.  No step of Next leads back to an earlier state, so   *)
(* weak fairness of Next is weak fairness of every task.                   *)
(***************************************************************************)
LiveSpec == Spec /\ WF_vars(Next)

\* worker k has sent its GetTask and waits on the one-shot reply channel
Pending(k) == mode = "version" /\ worker[k].pc = "recv" /\ ~worker[k].val.some

\* C23 (as claimed): every get_task request to the memo actor is eventually
\* answered, unless the process has ended in between.
C23_RequestsAnswered ==
    \A k \in Variants \X GenTaskNames :
        Pending(k) ~> (worker[k].val.some \/ ~ProcessRuns)


\* the names of the build variants of a list, in order
VariantNames(variants) == [k \in DOMAIN variants |-> variants[k].name]

\* C24: in version-scoped mode the written output has exactly one build
\* variant for each build variant of the input, the ones without a generator
\* task included, each with activate = Some(false), and it is written only
\* when every variant's task has finished; until then the shared list holds
\* exactly the variants whose task has finished.
C24_OneVariantPerInput ==
    mode = "version" =>
        /\ NoDup(VariantNames(generated_build_variants))
        /\ Range(VariantNames(generated_build_variants))
               = {v \in Variants : bv[v].pc = "done"}
        /\ output.some =>
               /\ \A v \in DOMAIN project.buildvariants : bv[v].pc = "done"
               /\ NoDup(VariantNames(output.v.buildvariants))
               /\ Range(VariantNames(output.v.buildvariants))
                      = DOMAIN project.buildvariants
               /\ \A b \in Range(output.v.buildvariants) : b.activate = Some(FALSE)

\* a gen_version output with a build variant for a variant that lists no
\* generator task, next to one with sub-tasks
C24_Witness ==
    /\ mode = "version"
    /\ output.some
    /\ \E b \in Range(output.v.buildvariants) :
          GenTasksOf(b.name) = <<>> /\ b.tasks = <<>>
    /\ \E b \in Range(output.v.buildvariants) : b.tasks # <<>>


\* C25: every sub-task of a fuzzer task has the commands do setup, configure
\* evergreen api credentials, (do multiversion setup when multiversion),
\* setup jstestfuzz, run jstestfuzz, run generated tests, in this order, after
\* git get project no modules and add git tag exactly when multiversion, and
\* depends on archive_dist_test_debug only.
C25_FuzzerCommands ==
    (FuzzerDone /\ call_out.ret # Panic) =>
        \A k \in DOMAIN call_out.ret.sub_tasks :
            /\ call_out.ret.sub_tasks[k].commands =
                   IF Multiversion
                   THEN <<"git get project no modules", "add git tag", "do setup",
                          "configure evergreen api credentials", "do multiversion setup",
                          "setup jstestfuzz", "run jstestfuzz", "run generated tests">>
                   ELSE <<"do setup", "configure evergreen api credentials",
                          "setup jstestfuzz", "run jstestfuzz", "run generated tests">>
            /\ call_out.ret.sub_tasks[k].depends_on = <<"archive_dist_test_debug">>

\* a multiversion call and its sub-tasks of eight commands
C25_Witness ==
    /\ FuzzerDone
    /\ Multiversion
    /\ call_out.ret # Panic
    /\ call_out.ret.sub_tasks # <<>>
    /\ Len(call_out.ret.sub_tasks[1].commands) = 8


(***************************************************************************)
(* TasksSpec: the sub-task definitions of a GeneratedSuite, from           *)
(* GeneratedSuite::execution_tasks and ResmokeGenService::generate_tasks.  *)
(***************************************************************************)
\* the suites split_task returns on the inputs of SplitSpec
GeneratedSuites ==
    {split_task([suite_name |-> "s1", task_name |-> "t", test_map |-> tm],
                d, TestFiles, n, v) :
        tm \in TestMaps, d \in SeqsNoDup(TestFiles, MaxTests),
        n \in 0..MaxNSuites, v \in Variants}

TasksInit ==
    /\ \E g \in GeneratedSuites, m \in BOOLEAN :
          call_in = [fn |-> "tasks", gen_suite |-> g,
                     gen_params |-> [require_multiversion_setup |-> m]]
    /\ call_out = [pc |-> "start", execution_tasks |-> None, generate_tasks |-> None]
    /\ SplitIdle
    /\ RewriteIdle
    /\ WriterIdle
    /\ OrchIdle
    /\ LockIdle

ExecutionTasks ==
    /\ call_in.fn = "tasks"
    /\ ~call_out.execution_tasks.some
    /\ call_out' = [call_out EXCEPT
                      !.execution_tasks =
                          Some(execution_tasks(call_in.gen_suite, call_in.gen_params))]
    /\ UNCHANGED <<call_in, lock_vars, split_vars, rw_vars, writer_vars, orch_vars>>

GenerateTasks ==
    /\ call_in.fn = "tasks"
    /\ ~call_out.generate_tasks.some
    /\ call_out' = [call_out EXCEPT
                      !.generate_tasks =
                          Some(generate_tasks(call_in.gen_suite, call_in.gen_params))]
    /\ UNCHANGED <<call_in, lock_vars, split_vars, rw_vars, writer_vars, orch_vars>>

TasksNext == ExecutionTasks \/ GenerateTasks

TasksSpec == TasksInit /\ [][TasksNext]_vars

(***************************************************************************)
(* Properties of the sub-task definitions (TasksSpec).                     *)
(***************************************************************************)
\* the sub-tasks are one per sub-suite, in sub-suite order, named like the
\* sub-suite, with the commands and the dependency of a generated test run
SubTasksAsClaimed(tasks) ==
    /\ Len(tasks) = Len(call_in.gen_suite.sub_suites)
    /\ \A k \in DOMAIN tasks :
          /\ tasks[k].name = call_in.gen_suite.sub_suites[k].name
          /\ tasks[k].commands =
                 IF call_in.gen_params.require_multiversion_setup
                 THEN <<"git get project no modules", "add git tag", "do setup",
                        "configure evergreen api credentials", "do multiversion setup",
                        "run generated tests">>
                 ELSE <<"do setup", "configure evergreen api credentials",
                        "run generated tests">>
          /\ tasks[k].depends_on = <<"archive_dist_test">>

\* C26: for every sub-suite of a GeneratedSuite exactly one sub-task is
\* produced, in sub-suite order, named like the sub-suite, with the commands
\* (git get project no modules, add git tag if multiversion), do setup,
\* configure evergreen api credentials, (do multiversion setup if
\* multiversion), run generated tests, and with archive_dist_test as its
\* only dependency.
C26_SubSuiteTasks ==
    call_in.fn = "tasks" =>
        /\ call_out.execution_tasks.some => SubTasksAsClaimed(call_out.execution_tasks.v)
        /\ call_out.generate_tasks.some => SubTasksAsClaimed(call_out.generate_tasks.v)

\* a multiversion suite of two sub-suites and its two sub-tasks, from both
\* functions
C26_Witness ==
    /\ call_in.fn = "tasks"
    /\ call_in.gen_params.require_multiversion_setup
    /\ Len(call_in.gen_suite.sub_suites) = 2
    /\ call_out.execution_tasks.some
    /\ call_out.generate_tasks.some
    /\ Len(call_out.execution_tasks.v) = 2
    /\ call_out.execution_tasks.v[2].name = call_in.gen_suite.sub_suites[2].name
    /\ Len(call_out.execution_tasks.v[2].commands) = 6


(***************************************************************************)
(* Properties of one handled write request (WriterSpec).                   *)
(***************************************************************************)
\* the paths of the suite files and of the misc file of a request
SuiteFilePaths(gen_suite) ==
    {ConfigPath(s.name \o ".yml") : s \in Range(gen_suite.sub_suites)}
MiscFilePath(gen_suite) == ConfigPath(gen_suite.task_name \o "_misc.yml")

\* the step wrote into the config directory exactly the k+1 files of
\* gen_suite, with the roots and the added exclusions of the request
RequestFilesWritten(gen_suite) ==
    LET paths == SuiteFilePaths(gen_suite) \cup {MiscFilePath(gen_suite)}
    IN  /\ Cardinality(paths) = Len(gen_suite.sub_suites) + 1
        /\ paths \subseteq DOMAIN files'
        /\ \A p \in DOMAIN files' \ paths : p \in DOMAIN files /\ files'[p] = files[p]
        /\ \A s \in Range(gen_suite.sub_suites) :
              Get(SelectorOf(files'[ConfigPath(s.name \o ".yml")]), "roots")
                  = YArray(YamlList(s.test_list))
        /\ Get(SelectorOf(files'[MiscFilePath(gen_suite)]), "exclude_files")
              = YArray(ExcludedEntries(read_suite_config(gen_suite.suite_name))
                       \o YamlList(AllTests(gen_suite)))

\* C27 (as claimed): handling one write request for a GeneratedSuite with k
\* sub-suites writes exactly k+1 files: for each sub-suite the file
\* {sub_suite.name}.yml whose selector.roots is its test list, and the file
\* {task_name}_misc.yml whose added exclusions are the test lists of all k
\* sub-suites.
C27_RequestFiles ==
    [][\A w \in Workers :
          WorkerWrites(w) => RequestFilesWritten(Head(channel[w]).gen_suite)]_vars


(***************************************************************************)
(* Properties of the end of a run (Spec).                                  *)
(***************************************************************************)
\* the definitions of tasks[] that run a sub-suite of a splittable task
SplitSubTaskDefs ==
    {td \in Range(output.v.tasks) : "run jstestfuzz" \notin Range(td.commands)}

\* C28: when the process has exited with status 0 the writer pool has been
\* flushed: flush has returned, no write request is still queued, and for
\* every sub-task definition of the output's tasks[] that came from a
\* splittable task the suite file {config_dir}/{sub_task_name}.yml is in the
\* config directory.
C28_SuiteFilesWrittenAtExit ==
    main.pc = "exit0" =>
        /\ output.some
        /\ flush.pc = "returned"
        /\ NoPendingWrite
        /\ \A td \in SplitSubTaskDefs : ConfigPath(td.name \o ".yml") \in DOMAIN files

\* a run that exited with status 0 whose output defines the sub-tasks of a
\* splittable task split in two
C28_Witness ==
    /\ main.pc = "exit0"
    /\ output.some
    /\ Cardinality(SplitSubTaskDefs) >= 2
    /\ \A td \in SplitSubTaskDefs : ConfigPath(td.name \o ".yml") \in DOMAIN files


\* C29 (as claimed): when the history map holds no records, every test
\* starts a new partition until max_tasks - 1 sub-suites have been closed:
\* split_task returns min(n_suites, number of tests) sub-suites, all but the
\* last of one test.  Stated for n_suites >= 1.
C29_NoHistorySplitsEveryTest ==
    (/\ SplitDone
     /\ split_in.n_suites >= 1
     /\ DOMAIN split_in.task_stats.test_map = {})
    => /\ Len(split.sub_suites) = min(split_in.n_suites, Len(SplitTests))
       /\ \A k \in 1..(Len(split.sub_suites) - 1) : TestLists[k] = <<SplitTests[k]>>


\* C30: an iteration of split_task on a test with no history entry closes no
\* sub-suite and leaves the running runtime as it was: the test is appended
\* to the sub-suite that is open when it is reached.
C30_UnknownTestJoinsOpenSubSuite ==
    [][(/\ AtTest
        /\ ~SplitKnown(split.test_list[split.pos]))
       => /\ split'.sub_suites = split.sub_suites
          /\ split'.i = split.i
          /\ split'.running_runtime = split.running_runtime
          /\ split'.running_tests
                 = Append(split.running_tests, split.test_list[split.pos])]_vars

\* a test without history has just joined a running sub-suite whose runtime
\* is above the target, with room for another sub-suite
C30_Witness ==
    /\ split.pc = "loop"
    /\ split.pos = 3
    /\ ~SplitKnown(split.test_list[2])
    /\ SplitKnown(split.test_list[1])
    /\ split.running_tests = SubSeq(split.test_list, 1, 2)
    /\ split.sub_suites = <<>>
    /\ split.max_tasks >= 2
    /\ split.running_runtime * split.max_tasks > split.total_runtime


(***************************************************************************)
(* task_history.rs: get_task_history, from the test statistics to the      *)
(* TaskRuntimeHistory.  A statistic is [test_file, avg_duration_pass];     *)
(* durations are natural numbers here.                                     *)
(***************************************************************************)
\* is_hook: test_file.contains(":")
is_hook(test_file) == \E k \in 1..Len(test_file) : SubSeq(test_file, k, k) = ":"

RECURSIVE BeforeFirstColon(_, _)
\* the part of s before its first ":", looking rightwards from position k
BeforeFirstColon(s, k) ==
    IF k > Len(s) THEN s
    ELSE IF SubSeq(s, k, k) = ":" THEN SubSeq(s, 1, k - 1)
    ELSE BeforeFirstColon(s, k + 1)

RECURSIVE AfterLastColon(_, _)
\* the part of s after its last ":", looking leftwards from position k
AfterLastColon(s, k) ==
    IF k = 0 THEN s
    ELSE IF SubSeq(s, k, k) = ":" THEN SubSeq(s, k + 1, Len(s))
    ELSE AfterLastColon(s, k - 1)

\* test_file.split(":").next()
hook_test_name(test_file) == BeforeFirstColon(test_file, 1)
\* test_file.split(":").last()
hook_hook_name(test_file) == AfterLastColon(test_file, Len(test_file))

HookRuntimeHistory(stat) ==
    [test_name |-> hook_test_name(stat.test_file),
     hook_name |-> hook_hook_name(stat.test_file),
     average_runtime |-> stat.avg_duration_pass]

\* the body of the first `for stat in &stats`
AddHookStat(hook_map, stat) ==
    IF is_hook(stat.test_file)
    THEN LET test_name == hook_test_name(stat.test_file)
         IN  IF test_name \in DOMAIN hook_map
             THEN [hook_map EXCEPT ![test_name] = Append(@, HookRuntimeHistory(stat))]
             ELSE MapInsert(hook_map, test_name, <<HookRuntimeHistory(stat)>>)
    ELSE hook_map

\* the body of the second loop with `=` in place of `+=`
AddTestStat_Overwrite(test_map, hook_map, stat) ==
    IF ~is_hook(stat.test_file)
    THEN MapInsert(test_map, get_test_name(stat.test_file),
                   [test_name |-> stat.test_file,
                    average_runtime |-> stat.avg_duration_pass,
                    hooks |-> IF get_test_name(stat.test_file) \in DOMAIN hook_map
                              THEN hook_map[get_test_name(stat.test_file)]
                              ELSE <<>>])
    ELSE test_map

\* the body of the second `for stat in &stats`
AddTestStat(test_map, hook_map, stat) ==
    IF ~is_hook(stat.test_file)
    THEN LET test_name == get_test_name(stat.test_file)
         IN  IF test_name \in DOMAIN test_map
             THEN [test_map EXCEPT
                     ![test_name].test_name = stat.test_file,
                     ![test_name].average_runtime = @ + stat.avg_duration_pass]
             ELSE MapInsert(test_map, test_name,
                            [test_name |-> stat.test_file,
                             average_runtime |-> stat.avg_duration_pass,
                             hooks |-> IF test_name \in DOMAIN hook_map
                                       THEN hook_map[test_name]
                                       ELSE <<>>])
    ELSE test_map

RECURSIVE HookMapOf(_, _)
HookMapOf(hook_map, stats) ==
    IF stats = <<>> THEN hook_map
    ELSE HookMapOf(AddHookStat(hook_map, Head(stats)), Tail(stats))

RECURSIVE TestMapOf(_, _, _)
TestMapOf(test_map, hook_map, stats) ==
    IF stats = <<>> THEN test_map
    ELSE TestMapOf(AddTestStat(test_map, hook_map, Head(stats)), hook_map, Tail(stats))

\* get_task_history on the statistics the Evergreen API returned
task_history_of_stats(task, suite, stats) ==
    [suite_name |-> suite,
     task_name |-> task,
     test_map |-> TestMapOf(<<>>, HookMapOf(<<>>, stats), stats)]

\* the statistics of a task: test records that share a logical name, and
\* hook records
StatFiles == {"jstests/a.js", "jstests/x/a.js", "c.js", "a:CleanEveryN", "jstests/a.js:Hook"}
StatRecords == [test_file : StatFiles, avg_duration_pass : 1..MaxRuntime]
StatLists == UNION {[1..k -> StatRecords] : k \in 0..MaxStats}

HistoryInit ==
    /\ \E stats \in StatLists :
          call_in = [fn |-> "history", task |-> "t", suite |-> "s1", stats |-> stats]
    /\ call_out = [pc |-> "start", history |-> None]
    /\ SplitIdle
    /\ RewriteIdle
    /\ WriterIdle
    /\ OrchIdle
    /\ LockIdle

GetTaskHistory ==
    /\ call_in.fn = "history"
    /\ call_out.pc = "start"
    /\ call_out' = [pc |-> "done",
                    history |-> Some(task_history_of_stats(call_in.task, call_in.suite,
                                                           call_in.stats))]
    /\ UNCHANGED <<call_in, lock_vars, split_vars, rw_vars, writer_vars, orch_vars>>

HistoryNext == GetTaskHistory

HistorySpec == HistoryInit /\ [][HistoryNext]_vars

(***************************************************************************)
(* Properties of get_task_history (HistorySpec).                           *)
(***************************************************************************)
\* the positions of the test records (no ":" in test_file) of the statistics
TestRecords == {k \in DOMAIN call_in.stats : ~is_hook(call_in.stats[k].test_file)}

\* the test records with the logical name n
RecordsNamed(n) == {k \in TestRecords : get_test_name(call_in.stats[k].test_file) = n}

\* C31: get_task_history puts no record whose test_file contains ":" into
\* the test map, keys every other record by its logical test name, and the
\* runtime stored under a key is the sum of avg_duration over the test
\* records with that logical name.
C31_TestMapSumsByLogicalName ==
    (call_in.fn = "history" /\ call_out.pc = "done") =>
        LET test_map == call_out.history.v.test_map
        IN  /\ DOMAIN test_map
                 = {get_test_name(call_in.stats[k].test_file) : k \in TestRecords}
            /\ \A n \in DOMAIN test_map :
                  test_map[n].average_runtime
                      = SumOver([k \in RecordsNamed(n) |->
                                    call_in.stats[k].avg_duration_pass],
                                RecordsNamed(n))

\* statistics with two test records of the logical name a, another test and
\* a hook record: the map has the keys a and c, a with the sum
C31_Witness ==
    /\ call_in.fn = "history"
    /\ call_out.pc = "done"
    /\ Len(call_in.stats) = 4
    /\ Cardinality(RecordsNamed("a")) = 2
    /\ \E k \in DOMAIN call_in.stats : is_hook(call_in.stats[k].test_file)
    /\ DOMAIN call_out.history.v.test_map = {"a", "c"}
    /\ call_out.history.v.test_map["a"].average_runtime >= 2


(***************************************************************************)
(* Properties of the distribution of the writer pool (WriterSpec).         *)
(***************************************************************************)
\* the step is a step of flush()
FlushStep == flush.pc \in {"send", "wait"} \/ (flush.pc = "idle" /\ flush'.pc = "send")

\* the inbox of worker w changed as a queue does: a message joined at the
\* back, or the oldest one was taken, or the worker died with its inbox
InboxFifo(w) ==
    \/ channel'[w] = channel[w]
    \/ \E msg \in {SuiteFilesMsg(gs) : gs \in SuitesToWrite} \cup {FlushMsg} :
          channel'[w] = Append(channel[w], msg)
    \/ channel[w] # <<>> /\ channel'[w] = Tail(channel[w])
    \/ ~worker_alive'[w] /\ channel'[w] = <<>>

\* C32: the k-th write request (from 0) sent through the handle joins the
\* inbox of worker k mod count and of no other worker, the index stays
\* within [0, count), flush does not advance it, and each worker takes its
\* messages in the order in which they were sent to it.
C32_RoundRobinFifo ==
    [][/\ index' \in 0..(count - 1)
       /\ FlushStep => index' = index
       /\ \A w \in Workers : InboxFifo(w)
       /\ requests' # requests =>
             LET k == Len(requests)
             IN  /\ Len(requests') = k + 1
                 /\ channel'[k % count]
                        = Append(channel[k % count], SuiteFilesMsg(requests'[k + 1]))
                 /\ \A w \in Workers \ {k % count} : channel'[w] = channel[w]
                 /\ index' = (k + 1) % count]_vars

\* the third request has joined the inbox of worker 0 behind the first one,
\* with the second one in the inbox of worker 1
C32_Witness ==
    /\ Len(requests) = 3
    /\ index = 3 % count
    /\ channel[0] = <<SuiteFilesMsg(requests[1]), SuiteFilesMsg(requests[3])>>
    /\ channel[1] = <<SuiteFilesMsg(requests[2])>>
    /\ requests[1] # requests[3]


(***************************************************************************)
(* Properties of the per-variant aggregate (Spec).                         *)
(***************************************************************************)
\* the names of the sub-tasks of generator task t of variant v, in partition
\* order: of the suite its worker received, or of its fuzzer task
BlockOf(v, t) ==
    IF t \in Splittable
    THEN NamesOf(worker[<<v, t>>].val.v.sub_suites)
    ELSE NamesOf(generate_fuzzer_task(task_def_to_fuzzer_params(task_def_map(t), v),
                                      LastVersions).sub_tasks)

\* C33: whatever the interleaving of the workers of a variant, every change
\* of the variant's task-reference list is made by the step in which one
\* worker finishes, and appends the references of that worker's task as one
\* block in partition order: the blocks are contiguous and stand in the order
\* in which the workers finished.
C33_RefsInBlocks ==
    [][\A v \in DOMAIN generated_config \cap DOMAIN generated_config' :
          generated_config'[v].gen_task_specs # generated_config[v].gen_task_specs
          => \E t \in Range(GenTasksOf(v)) :
                /\ worker[<<v, t>>].pc # "done"
                /\ worker'[<<v, t>>].pc = "done"
                /\ \A k \in DOMAIN worker \ {<<v, t>>} : worker'[k] = worker[k]
                /\ NamesOf(generated_config'[v].gen_task_specs)
                       = NamesOf(generated_config[v].gen_task_specs) \o BlockOf(v, t)]_vars

\* both workers of a variant with two generator tasks have finished, the
\* second-listed one first: its references stand in front
C33_Witness ==
    \E v \in DOMAIN generated_config :
        /\ Len(GenTasksOf(v)) = 2
        /\ \A t \in Range(GenTasksOf(v)) : worker[<<v, t>>].pc = "done"
        /\ BlockOf(v, GenTasksOf(v)[1]) # <<>>
        /\ BlockOf(v, GenTasksOf(v)[2]) # <<>>
        /\ NamesOf(generated_config[v].gen_task_specs)
               = BlockOf(v, GenTasksOf(v)[2]) \o BlockOf(v, GenTasksOf(v)[1])


(***************************************************************************)
(* The frame of update_config (RewriteSpec).                               *)
(***************************************************************************)
\* the top-level keys of a document, none when its root is no mapping
TopLevelKeys(doc) == IF doc.tag = "Hash" THEN DOMAIN doc.map ELSE {}

\* C34: update_config, with a test list or with an exclusion set, leaves
\* every top-level key other than selector and every key of selector other
\* than roots and exclude_files with the value it has in the input document
\* (adding and removing none), and does not modify the stored config.
C34_RewriterFrame ==
    rw.pc = "done" =>
        /\ rw.config = rw_in.config
        /\ TopLevelKeys(rw.out) \ {"selector"} = TopLevelKeys(rw_in.config) \ {"selector"}
        /\ \A k \in TopLevelKeys(rw_in.config) \ {"selector"} :
               rw.out.map[k] = rw_in.config.map[k]
        /\ DOMAIN SelectorOf(rw.out) \ {"roots", "exclude_files"}
               = DOMAIN SelectorOf(rw_in.config) \ {"roots", "exclude_files"}
        /\ \A k \in DOMAIN SelectorOf(rw_in.config) \ {"roots", "exclude_files"} :
               SelectorOf(rw.out)[k] = SelectorOf(rw_in.config)[k]

\* a call with a test list on a config with the top-level keys test_kind and
\* executor and the selector key include_with_any_tags, all of them kept
C34_Witness ==
    /\ rw.pc = "done"
    /\ ~rw_in.all_tests.some
    /\ rw_in.test_list # <<>>
    /\ {"test_kind", "executor", "selector"} \subseteq TopLevelKeys(rw_in.config)
    /\ "include_with_any_tags" \in DOMAIN SelectorOf(rw_in.config)
    /\ "exclude_files" \in DOMAIN SelectorOf(rw_in.config)
    /\ "include_with_any_tags" \in DOMAIN SelectorOf(rw.out)
    /\ rw.out.map["executor"] = rw_in.config.map["executor"]


\* C35: split_task returns at least one sub-suite whenever the discovered
\* tests that exist are not none, and no sub-suite it returns has an empty
\* test list.
C35_NoEmptySubSuite ==
    SplitDone =>
        /\ SplitTests # <<>> => Len(split.sub_suites) >= 1
        /\ \A k \in DOMAIN split.sub_suites : split.sub_suites[k].test_list # <<>>

\* a finished split of three tests, one of them missing on disk, into two
\* sub-suites of one test each
C35_Witness ==
    /\ SplitDone
    /\ Len(split_in.discovered) = 3
    /\ Len(SplitTests) = 2
    /\ Len(split.sub_suites) = 2
    /\ \A k \in DOMAIN split.sub_suites : Len(split.sub_suites[k].test_list) = 1


(***************************************************************************)
(* Properties of the memo actor (Spec, version-scoped mode).               *)
(***************************************************************************)
\* the actor handles the message at the head of its inbox in this step
ActorHandles(type) ==
    /\ inbox # <<>>
    /\ Head(inbox).type = type
    /\ inbox' = Tail(inbox)

\* C36: once the memo actor has installed the GeneratedSuite of a task name
\* it is never replaced or removed; AddTask is handled at most once per task
\* name; and a GetTask for an installed name is answered in the same step
\* with the installed value, without starting a computation.
C36_InstalledOnce ==
    [][/\ \A t \in DOMAIN generated_tasks :
             t \in DOMAIN generated_tasks' /\ generated_tasks'[t] = generated_tasks[t]
       /\ ActorHandles("AddTask") => Head(inbox).task_name \notin DOMAIN generated_tasks
       /\ (ActorHandles("GetTask") /\ Head(inbox).task_name \in DOMAIN generated_tasks)
          => /\ worker'[Head(inbox).respond_to].val
                    = Some(generated_tasks[Head(inbox).task_name])
             /\ producer' = producer
             /\ calls' = calls
             /\ waiting_tasks' = waiting_tasks]_vars

\* a request of vB for t_gen was answered from the installed suite, after vA
\* had received it and finished: one computation served both
C36_Witness ==
    /\ mode = "version"
    /\ "t_gen" \in DOMAIN generated_tasks
    /\ waiting_tasks["t_gen"] = <<>>
    /\ producer["t_gen"].bv_name = "vA"
    /\ worker[<<"vA", "t_gen">>].pc = "done"
    /\ worker[<<"vB", "t_gen">>].pc = "recv"
    /\ worker[<<"vB", "t_gen">>].val = Some(generated_tasks["t_gen"])
    /\ inbox = <<>>
    /\ calls["t_gen"].split = 1


\* the splittable tasks whose computation has completed write_sub_suite
Enqueued == {t \in Splittable : producer[t].pc \in {"add", "done"}}

\* C37: in version-scoped mode the GeneratedSuite of a splittable task is
\* enqueued to the writer pool once, however many variants request it (the
\* pool was sent as many suites as there are tasks whose computation got past
\* write_sub_suite, the suite of each among them), and a requester holds the
\* suite of a task only after that enqueue was completed.
C37_EnqueuedOnceBeforeReply ==
    mode = "version" =>
        /\ Len(requests) = Cardinality(Enqueued)
        /\ \A t \in Enqueued : producer[t].val.v \in Range(requests)
        /\ \A v \in Variants, t \in Splittable :
              worker[<<v, t>>].val.some
              => /\ t \in Enqueued
                 /\ worker[<<v, t>>].val.v = producer[t].val.v

\* both variants hold the suite of t_gen and the pool was sent one suite
C37_Witness ==
    /\ mode = "version"
    /\ worker[<<"vA", "t_gen">>].val.some
    /\ worker[<<"vB", "t_gen">>].val.some
    /\ Len(requests) = 1
    /\ requests[1] = worker[<<"vB", "t_gen">>].val.v
    /\ Len(requests[1].sub_suites) = 2


(***************************************************************************)
(* LockSpec: the mutexes of gen_version and the tasks that take them.      *)
(*                                                                         *)
(* The std mutexes generated_config (one per variant), seen_tasks,         *)
(* generated_build_variants and task_definitions and the tokio mutex       *)
(* around the WriteConfigActorHandle; lock_holder maps each to the task    *)
(* whose guard is alive, <<>> when free.  A task at a pc "lock_*" is       *)
(* blocked in lock() until the mutex is free.  lock_queue counts the       *)
(* messages in the writer pool's channel, which its workers take without   *)
(* any lock.  Panics are left out: a panic ends a task, it blocks none.    *)
(***************************************************************************)
LockTasks == {"t_gen", "f_gen"}
LockFuzzers == {"f_gen"}

GcLock(v) == <<"generated_config", v>>
SeenLock == <<"seen_tasks">>
GbvLock == <<"generated_build_variants">>
TdefsLock == <<"task_definitions">>
WriterLock == <<"write_config_actor">>
LockNames == {GcLock(v) : v \in Variants} \cup {SeenLock, GbvLock, TdefsLock, WriterLock}

WorkerProc(v, t) == <<"worker", v, t>>
BvProc(v) == <<"bv", v>>
ProducerProc(t) == <<"producer", t>>
MainProc == <<"main">>
WorkerProcs == {WorkerProc(v, t) : v \in Variants, t \in LockTasks}
LockProcs == WorkerProcs \cup {BvProc(v) : v \in Variants}
             \cup {ProducerProc(t) : t \in LockTasks \ LockFuzzers} \cup {MainProc}

Free == <<>>

\* the mutex a task at pc `pc` is about to lock, Free if it is at no lock()
WantedLock(p, pc) ==
    CASE pc = "lock_gc" -> GcLock(p[2])
      [] pc = "lock_seen" -> SeenLock
      [] pc = "lock_gbv" -> GbvLock
      [] pc = "lock_tdefs" -> TdefsLock
      [] pc = "lock_writer" -> WriterLock
      [] OTHER -> Free

\* the mutexes whose guard task p holds
Held(p) == {l \in DOMAIN lock_holder : lock_holder[l] = p}

\* the variant task with task_definitions locked before
\* generated_build_variants in variant vB
BvAfterLock_DefsFirst(v, pc) ==
    IF v = "vB"
    THEN CASE pc = "lock_gc" -> "lock_tdefs"
           [] pc = "lock_tdefs" -> "lock_gbv"
           [] pc = "lock_gbv" -> "critical"
    ELSE CASE pc = "lock_gc" -> "lock_gbv"
           [] pc = "lock_gbv" -> "lock_tdefs"
           [] pc = "lock_tdefs" -> "critical"

\* lines 406-417: the variant task locks generated_config, then
\* generated_build_variants, then task_definitions
BvAfterLock(v, pc) ==
    CASE pc = "lock_gc" -> "lock_gbv"
      [] pc = "lock_gbv" -> "lock_tdefs"
      [] pc = "lock_tdefs" -> "critical"

\* the pc of a task after the lock() it was blocked in has returned
AfterLock(p, pc) ==
    CASE p[1] = "worker" /\ pc = "lock_gc" ->
             IF p[3] \in LockFuzzers THEN "critical" ELSE "lock_seen"
      [] p[1] = "worker" /\ pc = "lock_seen" -> "critical"
      [] p[1] = "bv" -> BvAfterLock(p[2], pc)
      [] p[1] = "producer" -> "send"
      [] p[1] = "main" /\ pc = "lock_gbv" -> "lock_tdefs"
      [] p[1] = "main" /\ pc = "lock_tdefs" -> "write"
      [] p[1] = "main" /\ pc = "lock_writer" -> "flush_send"

LockInit ==
    /\ \E listed \in [Variants -> SUBSET LockTasks] :
          lock_pc = [p \in LockProcs |->
                        CASE p[1] = "worker" ->
                                 IF p[3] \notin listed[p[2]] THEN "absent"
                                 ELSE IF p[3] \in LockFuzzers THEN "lock_gc"
                                 ELSE "send"
                          [] p[1] = "producer" -> "idle"
                          [] OTHER -> "join"]
    /\ lock_holder = [l \in LockNames |-> Free]
    /\ lock_queue = 0
    /\ SplitIdle
    /\ RewriteIdle
    /\ WriterIdle
    /\ OrchIdle
    /\ CallIdle

lock_others == <<split_vars, rw_vars, writer_vars, orch_vars, call_vars>>

\* Mutex::lock returning for task p
LockAcquire(p) ==
    /\ WantedLock(p, lock_pc[p]) # Free
    /\ lock_holder[WantedLock(p, lock_pc[p])] = Free
    /\ lock_holder' = [lock_holder EXCEPT ![WantedLock(p, lock_pc[p])] = p]
    /\ lock_pc' = [lock_pc EXCEPT ![p] = AfterLock(p, @)]
    /\ UNCHANGED <<lock_queue, lock_others>>

\* a splittable worker, lines 381-384: get_task sends the request (the memo
\* actor starts the computation on the first one) and awaits the reply
LockWorkerSend(v, t) ==
    /\ lock_pc[WorkerProc(v, t)] = "send"
    /\ lock_pc' = [lock_pc EXCEPT
                     ![WorkerProc(v, t)] = "get_task",
                     ![ProducerProc(t)] = IF @ = "idle" THEN "lock_writer" ELSE @]
    /\ UNCHANGED <<lock_holder, lock_queue, lock_others>>

\* the reply of the memo actor arrives once the computation has sent AddTask
LockWorkerReply(v, t) ==
    /\ lock_pc[WorkerProc(v, t)] = "get_task"
    /\ lock_pc[ProducerProc(t)] = "done"
    /\ lock_pc' = [lock_pc EXCEPT ![WorkerProc(v, t)] = "lock_gc"]
    /\ UNCHANGED <<lock_holder, lock_queue, lock_others>>

\* the end of a critical section: the guards of task p are dropped
LockRelease(p) ==
    /\ lock_pc[p] = "critical"
    /\ lock_holder' = [l \in DOMAIN lock_holder |->
                          IF lock_holder[l] = p THEN Free ELSE lock_holder[l]]
    /\ lock_pc' = [lock_pc EXCEPT ![p] = "done"]
    /\ UNCHANGED <<lock_queue, lock_others>>

\* the computation, lines 523-526: write_sub_suite under the writer lock,
\* whose send waits for room in the channel; then the guard is dropped
LockProducerSend(t) ==
    /\ lock_pc[ProducerProc(t)] = "send"
    /\ lock_queue < LockChannelCapacity
    /\ lock_queue' = lock_queue + 1
    /\ lock_holder' = [lock_holder EXCEPT ![WriterLock] = Free]
    /\ lock_pc' = [lock_pc EXCEPT ![ProducerProc(t)] = "done"]
    /\ UNCHANGED lock_others

\* a worker of the writer pool takes a message from the channel
LockPoolTakes ==
    /\ lock_queue > 0
    /\ lock_queue' = lock_queue - 1
    /\ UNCHANGED <<lock_holder, lock_pc, lock_others>>

\* the variant task, lines 402-404: its workers joined
LockBvJoin(v) ==
    /\ lock_pc[BvProc(v)] = "join"
    /\ \A t \in LockTasks : lock_pc[WorkerProc(v, t)] \in {"absent", "done"}
    /\ lock_pc' = [lock_pc EXCEPT ![BvProc(v)] = "lock_gc"]
    /\ UNCHANGED <<lock_holder, lock_queue, lock_others>>

\* main, lines 422-424: the variant tasks joined
LockMainJoin ==
    /\ lock_pc[MainProc] = "join"
    /\ \A v \in Variants : lock_pc[BvProc(v)] = "done"
    /\ lock_pc' = [lock_pc EXCEPT ![MainProc] = "lock_gbv"]
    /\ UNCHANGED <<lock_holder, lock_queue, lock_others>>

\* main, lines 438-444: the output written with both list guards alive, then
\* the writer lock
LockMainWrite ==
    /\ lock_pc[MainProc] = "write"
    /\ lock_pc' = [lock_pc EXCEPT ![MainProc] = "lock_writer"]
    /\ UNCHANGED <<lock_holder, lock_queue, lock_others>>

\* main, line 445: flush sends Flush (waiting for room in the channel) and
\* awaits the reply, which comes when the pool has taken the message
LockMainFlushSend ==
    /\ lock_pc[MainProc] = "flush_send"
    /\ lock_queue < LockChannelCapacity
    /\ lock_queue' = lock_queue + 1
    /\ lock_pc' = [lock_pc EXCEPT ![MainProc] = "flush_recv"]
    /\ UNCHANGED <<lock_holder, lock_others>>

\* flush returns and main with it: every guard of main is dropped
LockMainExit ==
    /\ lock_pc[MainProc] = "flush_recv"
    /\ lock_queue = 0
    /\ lock_holder' = [l \in DOMAIN lock_holder |->
                          IF lock_holder[l] = MainProc THEN Free ELSE lock_holder[l]]
    /\ lock_pc' = [lock_pc EXCEPT ![MainProc] = "exit"]
    /\ UNCHANGED <<lock_queue, lock_others>>

LockNext ==
    \/ \E p \in LockProcs : LockAcquire(p)
    \/ \E p \in LockProcs \ {MainProc} : LockRelease(p)
    \/ \E v \in Variants, t \in LockTasks \ LockFuzzers : LockWorkerSend(v, t)
    \/ \E v \in Variants, t \in LockTasks \ LockFuzzers : LockWorkerReply(v, t)
    \/ \E t \in LockTasks \ LockFuzzers : LockProducerSend(t)
    \/ LockPoolTakes
    \/ \E v \in Variants : LockBvJoin(v)
    \/ LockMainJoin
    \/ LockMainWrite
    \/ LockMainFlushSend
    \/ LockMainExit

LockSpec == LockInit /\ [][LockNext]_vars

(***************************************************************************)
(* Properties of the locks (LockSpec).                                     *)
(***************************************************************************)
\* an order of the mutexes
LockRank(l) ==
    CASE l[1] = "generated_config" -> 1
      [] l = SeenLock -> 2
      [] l = GbvLock -> 3
      [] l = TdefsLock -> 4
      [] l = WriterLock -> 5

AggregateLocks == LockNames \ {WriterLock}

\* C38: no execution of the version-scoped orchestrator deadlocks on its
\* locks: until main has returned some task can always take a step; a task
\* blocked in lock() holds only mutexes that come earlier in one fixed order
\* (per-variant aggregate, seen-tasks set, output variant list,
\* task-definition list, writer-pool handle); and no worker waits on the
\* memo actor, and no computation on the writer pool's channel, while
\* holding one of the aggregate locks.
C38_NoLockDeadlock ==
    lock_pc # <<>> =>
        /\ lock_pc[MainProc] # "exit" => ENABLED LockNext
        /\ \A p \in LockProcs :
              WantedLock(p, lock_pc[p]) # Free
              => \A l \in Held(p) : LockRank(l) < LockRank(WantedLock(p, lock_pc[p]))
        /\ \A p \in WorkerProcs :
              lock_pc[p] \in {"send", "get_task"} => Held(p) = {}
        /\ \A p \in LockProcs :
              (p[1] = "producer" /\ lock_pc[p] = "send") => Held(p) \cap AggregateLocks = {}

\* the variant task of vB is blocked on generated_build_variants, which the
\* variant task of vA holds together with task_definitions, while a worker
\* of no variant is left
C38_Witness ==
    /\ lock_pc # <<>>
    /\ lock_pc[BvProc("vB")] = "lock_gbv"
    /\ Held(BvProc("vB")) = {GcLock("vB")}
    /\ Held(BvProc("vA")) = {GcLock("vA"), GbvLock, TdefsLock}
    /\ lock_pc[WorkerProc("vA", "t_gen")] = "done"
    /\ lock_pc[WorkerProc("vB", "t_gen")] = "done"
    /\ lock_pc[WorkerProc("vB", "f_gen")] = "done"


(***************************************************************************)
(* Properties of the display tasks of the written output (Spec).           *)
(***************************************************************************)
\* the display tasks of build variant b that list the name n
DisplayTasksOf(b, n) ==
    {j \in DOMAIN b.display_tasks.v : n \in Range(b.display_tasks.v[j].execution_tasks)}

\* C39 (as claimed): in every build variant of the written output each
\* generator task of the input variant has exactly one display task, named
\* by the short task name, the execution tasks of the display tasks are the
\* names of the task references appended for their tasks, in the same
\* order, and every task reference belongs to exactly one display task.
C39_OneDisplayTaskPerGenerator ==
    output.some =>
        \A b \in Range(output.v.buildvariants) :
            /\ b.display_tasks.some
            /\ Len(b.display_tasks.v) = Len(GenTasksOf(b.name))
            /\ \A t \in Range(GenTasksOf(b.name)) :
                  Cardinality({j \in DOMAIN b.display_tasks.v :
                                  b.display_tasks.v[j].name = remove_gen_suffix_ref(t)}) = 1
            /\ NamesOf(b.tasks)
                   = Flatten([j \in DOMAIN b.display_tasks.v |->
                                 b.display_tasks.v[j].execution_tasks])
            /\ \A k \in DOMAIN b.tasks :
                  Cardinality(DisplayTasksOf(b, b.tasks[k].name)) = 1

====
